---- MODULE Spec2Model ----
(***************************************************************************)
(* Verification model of the project rating system: the technology        *)
(* lexicon and normalizer, the tech stack detector, the analysis bundle   *)
(* and the three scoring algorithms.                                       *)
(*                                                                         *)
(* Text is modelled as a sequence of one-character strings, so that       *)
(* lower-casing, trimming, regular-expression cleaning, tokenising and    *)
(* substring containment are computed character by character, as the      *)
(* Python code computes them.                                              *)
(*                                                                         *)
(* Scores are fixed-point integers: one point is Unit units.              *)
(***************************************************************************)
EXTENDS Integers, Sequences, FiniteSets, TLC

(***************************************************************************)
(* Characters                                                              *)
(***************************************************************************)

\* The characters in ascending code-point order (Python compares strings by
\* code point).
CharOrder ==
  << " ", "!", "#", "+", ",", "-", ".", "/",
     "0", "1", "2", "3", "4", "5", "6", "7", "8", "9",
     "?",
     "A", "B", "C", "D", "E", "F", "G", "H", "I", "J", "K", "L", "M",
     "N", "O", "P", "Q", "R", "S", "T", "U", "V", "W", "X", "Y", "Z",
     "_",
     "a", "b", "c", "d", "e", "f", "g", "h", "i", "j", "k", "l", "m",
     "n", "o", "p", "q", "r", "s", "t", "u", "v", "w", "x", "y", "z" >>

Ord(c) == CHOOSE i \in 1..Len(CharOrder) : CharOrder[i] = c

IsDigit(c) == Ord(c) >= Ord("0") /\ Ord(c) <= Ord("9")

IsUpper(c) == Ord(c) >= Ord("A") /\ Ord(c) <= Ord("Z")

IsLowerLetter(c) == Ord(c) >= Ord("a") /\ Ord(c) <= Ord("z")

\* \s of the regular expressions and of str.split / str.strip
IsSpace(c) == c = " "

\* \w of the regular expressions
IsWordChar(c) == IsDigit(c) \/ IsUpper(c) \/ IsLowerLetter(c) \/ c = "_"

\* str.lower on one character
LowerChar(c) ==
  IF IsUpper(c) THEN CharOrder[Ord(c) - Ord("A") + Ord("a")] ELSE c

(***************************************************************************)
(* Strings                                                                 *)
(***************************************************************************)

\* str.lower
Lower(s) == [i \in 1..Len(s) |-> LowerChar(s[i])]

RECURSIVE LStrip(_)
LStrip(s) ==
  IF s # <<>> /\ IsSpace(Head(s)) THEN LStrip(Tail(s)) ELSE s

RECURSIVE RStrip(_)
RStrip(s) ==
  IF s # <<>> /\ IsSpace(s[Len(s)]) THEN RStrip(SubSeq(s, 1, Len(s) - 1)) ELSE s

\* str.strip
Strip(s) == RStrip(LStrip(s))

\* the Python operator  sub in s
Contains(sub, s) ==
  \E i \in 0..(Len(s) - Len(sub)) : SubSeq(s, i + 1, i + Len(sub)) = sub

\* Python's ordering of two strings:  a < b
RECURSIVE StrLess(_, _)
StrLess(a, b) ==
  IF b = <<>> THEN FALSE
  ELSE IF a = <<>> THEN TRUE
  ELSE IF Head(a) = Head(b) THEN StrLess(Tail(a), Tail(b))
  ELSE Ord(Head(a)) < Ord(Head(b))

\* " ".join(parts)
RECURSIVE JoinSpace(_)
JoinSpace(parts) ==
  IF parts = <<>> THEN <<>>
  ELSE IF Len(parts) = 1 THEN parts[1]
  ELSE parts[1] \o <<" ">> \o JoinSpace(Tail(parts))

\* the characters of the class [.!?]
IsSentenceEnd(c) == c \in {".", "!", "?"}

\* membership of a character in one of the classes the code splits on:
\* "word" is \w, "nonspace" is what str.split() keeps, "sentence_end" is [.!?]
InClass(cls, c) ==
  IF cls = "word" THEN IsWordChar(c)
  ELSE IF cls = "sentence_end" THEN IsSentenceEnd(c)
  ELSE ~IsSpace(c)

\* the first position of s whose character is, or is not, of the class cls;
\* Len(s) + 1 when there is none
FirstWhere(s, cls, inside) ==
  IF \A i \in 1..Len(s) : InClass(cls, s[i]) # inside THEN Len(s) + 1
  ELSE CHOOSE i \in 1..Len(s) :
         /\ InClass(cls, s[i]) = inside
         /\ \A j \in 1..(i - 1) : InClass(cls, s[j]) # inside

RECURSIVE Runs(_, _, _)
\* the run that ends before position next of rest, then the runs of rest
\* from its next class character on
RunsAfter(run, rest, cls, next) ==
  (IF run = <<>> THEN <<>> ELSE <<run>>)
    \o (IF next > Len(rest) THEN <<>>
        ELSE Runs(SubSeq(rest, next, Len(rest)), <<>>, cls))

\* the run that stops before position stop of s, then the runs after it
RunsUpTo(s, cur, cls, stop) ==
  RunsAfter(cur \o SubSeq(s, 1, stop - 1), SubSeq(s, stop, Len(s)), cls,
            FirstWhere(SubSeq(s, stop, Len(s)), cls, TRUE))

\* splits s into its maximal runs of characters of the class cls; cur is the
\* run being read
Runs(s, cur, cls) == RunsUpTo(s, cur, cls, FirstWhere(s, cls, FALSE))

\* str.split()
Split(s) == Runs(s, <<>>, "nonspace")

\* re.findall(r'\b\w+\b', s)
FindWords(s) == Runs(s, <<>>, "word")

\* the elements of a sequence
Range(s) == {s[i] : i \in 1..Len(s)}

\* sorted(S) for a set of strings: ascending code-point order
RECURSIVE SortedList(_)
SortedList(S) ==
  IF S = {} THEN <<>>
  ELSE LET m == CHOOSE x \in S : \A y \in S \ {x} : StrLess(x, y)
       IN  <<m>> \o SortedList(S \ {m})

(***************************************************************************)
(* Technology lexicon                                                      *)
(***************************************************************************)

\* Python's None, and a value that is not a str (a number, a list, ...).
\* Both are kept distinct from every string, whose elements are single
\* characters.
None == <<"None">>

NonStr == <<"NonStr">>

IsStr(v) == v # None /\ v # NonStr

\* _create_basic_definitions: the basic technology table
basic_tech ==
  <<
    [name |-> <<"p","y","t","h","o","n">>, category |-> "language",
     aliases |-> << <<"p","y">> >>],
    [name |-> <<"j","a","v","a","s","c","r","i","p","t">>, category |-> "language",
     aliases |-> << <<"j","s">>, <<"e","c","m","a","s","c","r","i","p","t">> >>],
    [name |-> <<"j","a","v","a">>, category |-> "language",
     aliases |-> <<  >>],
    [name |-> <<"c","+","+">>, category |-> "language",
     aliases |-> << <<"c","p","p">> >>],
    [name |-> <<"c","#">>, category |-> "language",
     aliases |-> << <<"c","s","h","a","r","p">> >>],
    [name |-> <<"g","o">>, category |-> "language",
     aliases |-> << <<"g","o","l","a","n","g">> >>],
    [name |-> <<"r","u","s","t">>, category |-> "language",
     aliases |-> <<  >>],
    [name |-> <<"r","u","b","y">>, category |-> "language",
     aliases |-> <<  >>],
    [name |-> <<"p","h","p">>, category |-> "language",
     aliases |-> <<  >>],
    [name |-> <<"s","w","i","f","t">>, category |-> "language",
     aliases |-> <<  >>],
    [name |-> <<"d","j","a","n","g","o">>, category |-> "framework",
     aliases |-> <<  >>],
    [name |-> <<"f","l","a","s","k">>, category |-> "framework",
     aliases |-> <<  >>],
    [name |-> <<"f","a","s","t","a","p","i">>, category |-> "framework",
     aliases |-> <<  >>],
    [name |-> <<"e","x","p","r","e","s","s">>, category |-> "framework",
     aliases |-> << <<"e","x","p","r","e","s","s","j","s">> >>],
    [name |-> <<"r","e","a","c","t">>, category |-> "framework",
     aliases |-> << <<"r","e","a","c","t","j","s">> >>],
    [name |-> <<"v","u","e">>, category |-> "framework",
     aliases |-> << <<"v","u","e","j","s">> >>],
    [name |-> <<"a","n","g","u","l","a","r">>, category |-> "framework",
     aliases |-> << <<"a","n","g","u","l","a","r","j","s">> >>],
    [name |-> <<"s","p","r","i","n","g">>, category |-> "framework",
     aliases |-> << <<"s","p","r","i","n","g"," ","b","o","o","t">> >>],
    [name |-> <<"l","a","r","a","v","e","l">>, category |-> "framework",
     aliases |-> <<  >>],
    [name |-> <<"p","o","s","t","g","r","e","s","q","l">>, category |-> "database",
     aliases |-> << <<"p","o","s","t","g","r","e","s">> >>],
    [name |-> <<"m","y","s","q","l">>, category |-> "database",
     aliases |-> <<  >>],
    [name |-> <<"m","o","n","g","o","d","b">>, category |-> "database",
     aliases |-> << <<"m","o","n","g","o">> >>],
    [name |-> <<"r","e","d","i","s">>, category |-> "database",
     aliases |-> <<  >>],
    [name |-> <<"e","l","a","s","t","i","c","s","e","a","r","c","h">>, category |-> "database",
     aliases |-> << <<"e","s">> >>],
    [name |-> <<"c","a","s","s","a","n","d","r","a">>, category |-> "database",
     aliases |-> <<  >>],
    [name |-> <<"a","w","s">>, category |-> "cloud",
     aliases |-> << <<"a","m","a","z","o","n"," ","w","e","b"," ","s","e","r","v","i","c","e","s">> >>],
    [name |-> <<"a","z","u","r","e">>, category |-> "cloud",
     aliases |-> << <<"m","i","c","r","o","s","o","f","t"," ","a","z","u","r","e">> >>],
    [name |-> <<"g","o","o","g","l","e","_","c","l","o","u","d">>, category |-> "cloud",
     aliases |-> << <<"g","c","p">> >>],
    [name |-> <<"a","l","i","y","u","n">>, category |-> "cloud",
     aliases |-> << <<"a","l","i","b","a","b","a"," ","c","l","o","u","d">> >>],
    [name |-> <<"h","e","r","o","k","u">>, category |-> "cloud",
     aliases |-> <<  >>],
    [name |-> <<"d","o","c","k","e","r">>, category |-> "tool",
     aliases |-> <<  >>],
    [name |-> <<"k","u","b","e","r","n","e","t","e","s">>, category |-> "tool",
     aliases |-> << <<"k","8","s">> >>],
    [name |-> <<"g","i","t">>, category |-> "tool",
     aliases |-> << <<"g","i","t","h","u","b">>, <<"g","i","t","l","a","b">> >>],
    [name |-> <<"j","e","n","k","i","n","s">>, category |-> "tool",
     aliases |-> <<  >>],
    [name |-> <<"t","e","r","r","a","f","o","r","m">>, category |-> "tool",
     aliases |-> <<  >>]
  >>

\* settings carries no TECH_STACKS attribute, so _load_tech_definitions ends
\* in its except branch and the lexicon is the basic definition table, in
\* dict insertion order.
LoadedDefinitions == basic_tech

\* the keys of tech_definitions, in dict iteration order
DefKeys(defs) == [i \in 1..Len(defs) |-> defs[i].name]

\* the acronym of a multi-word name: the first letters of its words
Acronym(name) ==
  LET words == Split(name)
  IN  [i \in 1..Len(words) |-> LowerChar(words[i][1])]

\* alias entries that keep the canonical name only
AliasEntriesCanonicalOnly(d) == (d.name :> d.name)

\* the dict entries one definition contributes, later entries overriding
\* earlier ones
AliasEntries(d) ==
  LET main    == (d.name :> d.name)
      aliased == [a \in {Lower(d.aliases[i]) : i \in 1..Len(d.aliases)} |-> d.name]
      acro    == IF Contains(<<" ">>, d.name) /\ Len(Split(d.name)) > 1
                 THEN (Acronym(d.name) :> d.name)
                 ELSE <<>>
  IN  acro @@ aliased @@ main

\* _build_alias_mapping: a dict from alias to canonical name
RECURSIVE BuildAliasMapping(_)
BuildAliasMapping(defs) ==
  IF defs = <<>> THEN <<>>
  ELSE AliasEntries(defs[Len(defs)])
       @@ BuildAliasMapping(SubSeq(defs, 1, Len(defs) - 1))

\* the static deny-list of _is_outdated_tech
outdated_tech ==
  <<
    <<"j","q","u","e","r","y">>,   \* jquery
    <<"b","a","c","k","b","o","n","e">>,   \* backbone
    <<"e","m","b","e","r">>,   \* ember
    <<"k","n","o","c","k","o","u","t">>,   \* knockout
    <<"p","h","p","5">>,   \* php5
    <<"p","y","t","h","o","n","2">>,   \* python2
    <<"r","u","b","y","1",".","8">>,   \* ruby1.8
    <<"m","y","s","q","l","4">>,   \* mysql4
    <<"m","o","n","g","o","d","b","2">>,   \* mongodb2
    <<"f","l","a","s","h">>,   \* flash
    <<"s","i","l","v","e","r","l","i","g","h","t">>   \* silverlight
  >>

(***************************************************************************)
(* State                                                                   *)
(***************************************************************************)
VARIABLES
  models,            \* the module-level model handles: "unloaded", "loaded", "failed"
  tech_definitions,  \* TechStackAnalyzer.tech_definitions, in dict order
  tech_aliases,      \* TechStackAnalyzer.tech_aliases
  pc,                \* "idle", or the entry point that has just returned
  project,           \* the project record of the call
  token,             \* the argument of _normalize_tech_name
  algorithm,         \* the ScoringAlgorithm of the call
  weights,           \* the weight map of the call
  bundle,            \* the analysis bundle given to or returned by the call
  faults,            \* the malformed places of the bundle given to calculate_score
  batch,             \* the project list of a batch call
  resolved,          \* the value _normalize_tech_name returned
  tech_analysis,     \* the dict analyze_tech_stack returned
  result,            \* the ScoringResult returned
  results,           \* the ScoringResults of a batch call
  failed_projects,   \* the projects a batch request failed for
  outcome,           \* "ok", "rejected" (validation error), "none"
  project2,          \* the second project record of a comparison
  comparison,        \* the dict compare_projects returned
  extractor,         \* the statistical handles of the FeatureExtractor, shared by all requests
  requests,          \* the analyze_project calls in flight, by request
  extractions,       \* the extract_features calls so far: record and returned features
  nlp,               \* the _generate_summary call: the sentences of its text and the summary returned
  classifier,        \* the ProjectClassifier of a predict call: self.classes, the classes of the fitted model, the result
  detection          \* the detected sets of a record and of the record after an addition

vars == << models, tech_definitions, tech_aliases, pc, project, token,
           algorithm, weights, bundle, faults, batch, resolved, tech_analysis,
           result, results, failed_projects, outcome, project2, comparison, extractor, requests, extractions, nlp, classifier, detection >>

(***************************************************************************)
(* Technology normalizer (TechStackAnalyzer)                               *)
(***************************************************************************)

\* tech in self.tech_definitions
IsDefined(name) == \E i \in 1..Len(tech_definitions) : tech_definitions[i].name = name

KeepNotDigitDot(c) == ~(IsDigit(c) \/ c = ".")

KeepWordOrSpace(c) == IsWordChar(c) \/ IsSpace(c)

\* _clean_tech_name
CleanTechName(tech_name) ==
  LET noVersion == SelectSeq(tech_name, KeepNotDigitDot)
      noSpecial == SelectSeq(noVersion, KeepWordOrSpace)
  IN  Strip(JoinSpace(Split(noSpecial)))

\* a substring fallback in which the last matching key wins
RECURSIVE PartialMatchLast(_, _)
PartialMatchLast(tech_lower, i) ==
  IF i > Len(tech_definitions) THEN None
  ELSE LET defined_tech == tech_definitions[i].name
           later        == PartialMatchLast(tech_lower, i + 1)
       IN  IF later # None THEN later
           ELSE IF Contains(defined_tech, tech_lower) \/ Contains(tech_lower, defined_tech)
           THEN defined_tech
           ELSE None

\* the substring fallback: the first key, in dict order from position i, that
\* contains the token or is contained in it
RECURSIVE PartialMatch(_, _)
PartialMatch(tech_lower, i) ==
  IF i > Len(tech_definitions) THEN None
  ELSE LET defined_tech == tech_definitions[i].name
       IN  IF Contains(defined_tech, tech_lower) \/ Contains(tech_lower, defined_tech)
           THEN defined_tech
           ELSE PartialMatch(tech_lower, i + 1)

\* a normaliser that skips the lexicon: it returns the stripped, lower-cased
\* token itself
NormalizeTechNameRaw(tech_name) ==
  IF ~IsStr(tech_name) \/ tech_name = <<>> THEN None
  ELSE Lower(Strip(tech_name))

\* _normalize_tech_name
NormalizeTechName(tech_name) ==
  IF ~IsStr(tech_name) \/ tech_name = <<>> THEN None
  ELSE LET tech_lower == Lower(Strip(tech_name))
           clean_name == CleanTechName(tech_lower)
       IN  IF IsDefined(tech_lower) THEN tech_lower
           ELSE IF tech_lower \in DOMAIN tech_aliases THEN tech_aliases[tech_lower]
           ELSE IF clean_name # <<>> /\ IsDefined(clean_name) THEN clean_name
           ELSE PartialMatch(tech_lower, 1)

(***************************************************************************)
(* Tech stack detector (TechStackAnalyzer)                                 *)
(***************************************************************************)

\* the names one position of the word list contributes: the single word and
\* the two-word window starting there
WindowNames(words, i) ==
  LET single == NormalizeTechName(words[i])
      double == IF i < Len(words)
                THEN NormalizeTechName(words[i] \o <<" ">> \o words[i + 1])
                ELSE None
  IN  {single, double} \ {None}

\* _extract_from_text
ExtractFromText(text) ==
  IF text = <<>> THEN {}
  ELSE LET words == FindWords(Lower(text))
       IN  UNION {WindowNames(words, i) : i \in 1..Len(words)}

\* the names detected in the explicit tech_stack list
FromTechStack(tech_stack) ==
  {NormalizeTechName(tech_stack[i]) : i \in 1..Len(tech_stack)} \ {None}

\* the names detected in the string values of the metadata
FromMetadata(metadata) ==
  UNION {IF IsStr(metadata[i]) THEN ExtractFromText(Lower(metadata[i])) ELSE {}
         : i \in 1..Len(metadata)}

\* a detector that trusts a declared stack: the texts are read only when
\* tech_stack is empty
DetectedSetDeclaredFirst(p) ==
  IF p.tech_stack # <<>> THEN FromTechStack(p.tech_stack)
  ELSE ExtractFromText(Lower(p.description))
         \cup ExtractFromText(Lower(p.name))
         \cup FromMetadata(p.metadata)

\* the set _detect_technologies accumulates
DetectedSet(p) ==
  FromTechStack(p.tech_stack)
    \cup ExtractFromText(Lower(p.description))
    \cup ExtractFromText(Lower(p.name))
    \cup FromMetadata(p.metadata)

\* a detector that lists the names of the tech_stack in the order it reads
\* them instead of sorting the accumulated set
DetectTechnologiesInScanOrder(p) ==
  SelectSeq([i \in 1..Len(p.tech_stack) |-> NormalizeTechName(p.tech_stack[i])],
            LAMBDA n : n # None)

\* _detect_technologies: the accumulated set as a sorted list
DetectTechnologies(p) == SortedList(DetectedSet(p))

(***************************************************************************)
(* Numbers                                                                 *)
(*                                                                         *)
(* A score of one point is Unit units; a ratio of 1.0 is One units.  The   *)
(* two scales make every product and quotient of the scoring rules an      *)
(* integer, except where a quotient is noted as rounded down.              *)
(***************************************************************************)
Unit == 6000

One == 10 * Unit

Min(a, b) == IF a < b THEN a ELSE b

Max(a, b) == IF a > b THEN a ELSE b

\* min(max(score, 0), 100) on a score in units
Clamp(score) == Min(Max(score, 0), 100 * Unit)

\* dict.get(key, default) on a dict modelled as a function
Get(d, key, default) == IF key \in DOMAIN d THEN d[key] ELSE default

\* the sum of a sequence of integers
RECURSIVE SumSeq(_)
SumSeq(s) == IF s = <<>> THEN 0 ELSE Head(s) + SumSeq(Tail(s))

(***************************************************************************)
(* Tech stack analysis (TechStackAnalyzer.analyze_tech_stack)              *)
(***************************************************************************)

\* self.tech_categories.get(tech, default)
CategoryOf(tech, default) ==
  IF IsDefined(tech)
  THEN (CHOOSE d \in Range(tech_definitions) : d.name = tech).category
  ELSE default

\* self.popularity_scores is never filled, so every lookup yields the
\* default 0.5
PopularityScore(tech) == One \div 2

\* _is_outdated_tech
IsOutdatedTech(tech_name) == tech_name \in Range(outdated_tech)

\* the cohesion values the fitted vectorizer can yield for two or more
\* technologies (a mean of cosine similarities), 0.5 being also the value
\* returned without a vectorizer
CohesionValues == {0, One \div 2, One}

\* _calculate_cohesion; similarity is the value the vectorizer yields
CalculateCohesion(detected_tech, similarity) ==
  IF Len(detected_tech) <= 1 THEN One ELSE similarity

\* _analyze_tech_features; ratios in One units, the diversity rounded down
AnalyzeTechFeatures(detected_tech, similarity) ==
  IF detected_tech = <<>>
  THEN [diversity |-> 0, maturity |-> 0, complexity |-> 0, cohesion |-> 0]
  ELSE LET categories == [i \in 1..Len(detected_tech) |->
                            CategoryOf(detected_tech[i], "unknown")]
           maturity_scores == [i \in 1..Len(detected_tech) |->
                                 PopularityScore(detected_tech[i])]
       IN  [diversity  |-> (One * Cardinality(Range(categories)))
                             \div Max(Len(tech_definitions), 1),
            maturity   |-> SumSeq(maturity_scores) \div Len(maturity_scores),
            complexity |-> Min((One * Len(detected_tech)) \div 10, One),
            cohesion   |-> CalculateCohesion(detected_tech, similarity)]

\* _get_tech_details; the sort by popularity is stable and every popularity
\* is equal, so the order is that of detected_tech
GetTechDetails(detected_tech) ==
  [i \in 1..Len(detected_tech) |->
     [normalized_name  |-> detected_tech[i],
      category         |-> CategoryOf(detected_tech[i], "unknown"),
      popularity_score |-> PopularityScore(detected_tech[i]),
      is_outdated      |-> IsOutdatedTech(detected_tech[i])]]

\* a confidence that leaves out the step for a detailed description
CalculateConfidenceWithoutDetail(detected_tech, p) ==
  LET explicit   == IF p.tech_stack # <<>> THEN (4 * One) \div 10 ELSE 0
      byCount    == IF Len(detected_tech) > 0
                    THEN Min((Len(detected_tech) * One) \div 10, (3 * One) \div 10)
                    ELSE 0
      normalized == Cardinality({i \in 1..Len(detected_tech) : IsDefined(detected_tech[i])})
      byNames    == IF detected_tech # <<>>
                    THEN (normalized * One) \div (10 * Len(detected_tech))
                    ELSE 0
  IN  Min(explicit + byCount + byNames, One)

\* _calculate_confidence, in One units
CalculateConfidence(detected_tech, p) ==
  LET explicit   == IF p.tech_stack # <<>> THEN (4 * One) \div 10 ELSE 0
      byCount    == IF Len(detected_tech) > 0
                    THEN Min((Len(detected_tech) * One) \div 10, (3 * One) \div 10)
                    ELSE 0
      byDetail   == IF Len(p.description) > 100 THEN (2 * One) \div 10 ELSE 0
      normalized == Cardinality({i \in 1..Len(detected_tech) : IsDefined(detected_tech[i])})
      byNames    == IF detected_tech # <<>>
                    THEN (normalized * One) \div (10 * Len(detected_tech))
                    ELSE 0
  IN  Min(explicit + byCount + byDetail + byNames, One)

\* the categories _categorize_technologies groups the detected names under
TechCategories(detected_tech) ==
  {CategoryOf(detected_tech[i], "other") : i \in 1..Len(detected_tech)}

\* a recommendation text: its kind and the technologies it names
Rec(kind, techs) == [kind |-> kind, techs |-> techs]

\* _generate_tech_recommendations
GenerateTechRecommendations(detected_tech, analysis) ==
  LET categories == TechCategories(detected_tech)
      missing    == SelectSeq(<<"language", "framework", "database">>,
                              LAMBDA c : c \notin categories)
      essential  == [i \in 1..Len(missing) |-> Rec("missing_" \o missing[i], <<>>)]
      diversity  == Get(analysis, "diversity", 0)
      byDiversity == IF diversity * 10 < 3 * One THEN <<Rec("too_uniform", <<>>)>>
                     ELSE IF diversity * 10 > 8 * One THEN <<Rec("too_complex", <<>>)>>
                     ELSE <<>>
      outdated   == SelectSeq(detected_tech, IsOutdatedTech)
      byOutdated == IF outdated # <<>> THEN <<Rec("upgrade_outdated", outdated)>>
                    ELSE <<>>
      cohesion   == Get(analysis, "cohesion", One \div 2)
      byCohesion == IF cohesion * 10 < 3 * One THEN <<Rec("low_cohesion", <<>>)>>
                    ELSE <<>>
      specific   == essential \o byDiversity \o byOutdated \o byCohesion
      additional == <<Rec("add_testing", <<>>), Rec("add_cicd", <<>>),
                      Rec("add_monitoring", <<>>), Rec("add_containers", <<>>)>>
      all        == IF Len(specific) < 3
                    THEN specific \o SubSeq(additional, 1, 3 - Len(specific))
                    ELSE specific
  IN  SubSeq(all, 1, Min(5, Len(all)))

\* the dict analyze_tech_stack returns when no exception is raised, given
\* the list detected_tech that _detect_technologies returned
TechStackResult(p, detected_tech, similarity) ==
  LET analysis == AnalyzeTechFeatures(detected_tech, similarity)
  IN  [detected_tech   |-> detected_tech,
       tech_details    |-> GetTechDetails(detected_tech),
       analysis        |-> analysis,
       confidence      |-> CalculateConfidence(detected_tech, p),
       recommendations |-> GenerateTechRecommendations(detected_tech, analysis)]

\* the dict of the except branch of analyze_tech_stack
TechStackError ==
  [detected_tech |-> <<>>, analysis |-> <<>>, confidence |-> 0, error |-> TRUE]

\* lower() is called on a description or a name that is truthy and not a str
RaisesOnText(v) == v = NonStr

\* analyze_tech_stack; detected_tech is _detect_technologies(p), read only
\* when computing it does not raise
AnalyzeTechStack(p, detected_tech, similarity) ==
  IF RaisesOnText(p.description) \/ RaisesOnText(p.name)
  THEN TechStackError
  ELSE TechStackResult(p, detected_tech, similarity)
(***************************************************************************)
(* Text feature extractor (FeatureExtractor)                               *)
(***************************************************************************)

\* FeatureExtractor.quality_keywords
quality_keywords ==
  <<
    [category |-> "code", keywords |-> <<
       <<"c","l","e","a","n">>,
       <<"m","a","i","n","t","a","i","n","a","b","l","e">>,
       <<"r","e","a","d","a","b","l","e">>,
       <<"m","o","d","u","l","a","r">>,
       <<"t","e","s","t","e","d">> >>],
    [category |-> "architecture", keywords |-> <<
       <<"s","c","a","l","a","b","l","e">>,
       <<"m","i","c","r","o","s","e","r","v","i","c","e","s">>,
       <<"m","o","d","u","l","a","r">>,
       <<"d","e","c","o","u","p","l","e","d">>,
       <<"l","a","y","e","r","e","d">> >>],
    [category |-> "documentation", keywords |-> <<
       <<"d","o","c","u","m","e","n","t","e","d">>,
       <<"a","p","i"," ","d","o","c","s">>,
       <<"r","e","a","d","m","e">>,
       <<"c","o","m","m","e","n","t","s">>,
       <<"t","u","t","o","r","i","a","l">> >>],
    [category |-> "testing", keywords |-> <<
       <<"u","n","i","t"," ","t","e","s","t">>,
       <<"i","n","t","e","g","r","a","t","i","o","n"," ","t","e","s","t">>,
       <<"c","o","v","e","r","a","g","e">>,
       <<"t","d","d">>,
       <<"b","d","d">> >>],
    [category |-> "security", keywords |-> <<
       <<"s","e","c","u","r","e">>,
       <<"e","n","c","r","y","p","t","e","d">>,
       <<"a","u","t","h","e","n","t","i","c","a","t","i","o","n">>,
       <<"a","u","t","h","o","r","i","z","a","t","i","o","n">>,
       <<"s","s","l">> >>]
  >>

\* FeatureExtractor.innovation_keywords
innovation_keywords ==
  <<
    [category |-> "novelty", keywords |-> <<
       <<"i","n","n","o","v","a","t","i","v","e">>,
       <<"n","o","v","e","l">>,
       <<"u","n","i","q","u","e">>,
       <<"g","r","o","u","n","d","b","r","e","a","k","i","n","g">>,
       <<"o","r","i","g","i","n","a","l">> >>],
    [category |-> "complexity", keywords |-> <<
       <<"c","o","m","p","l","e","x">>,
       <<"s","o","p","h","i","s","t","i","c","a","t","e","d">>,
       <<"a","d","v","a","n","c","e","d">>,
       <<"c","u","t","t","i","n","g","-","e","d","g","e">>,
       <<"s","t","a","t","e","-","o","f","-","a","r","t">> >>],
    [category |-> "automation", keywords |-> <<
       <<"a","u","t","o","m","a","t","e","d">>,
       <<"a","i">>,
       <<"m","a","c","h","i","n","e"," ","l","e","a","r","n","i","n","g">>,
       <<"i","n","t","e","l","l","i","g","e","n","t">>,
       <<"s","m","a","r","t">> >>]
  >>

\* FeatureExtractor.business_keywords
business_keywords ==
  <<
    [category |-> "market", keywords |-> <<
       <<"m","a","r","k","e","t">>,
       <<"b","u","s","i","n","e","s","s">>,
       <<"c","o","m","m","e","r","c","i","a","l">>,
       <<"r","e","v","e","n","u","e">>,
       <<"p","r","o","f","i","t">> >>],
    [category |-> "user", keywords |-> <<
       <<"u","s","e","r">>,
       <<"c","u","s","t","o","m","e","r">>,
       <<"a","u","d","i","e","n","c","e">>,
       <<"d","e","m","a","n","d">>,
       <<"n","e","e","d">> >>],
    [category |-> "scale", keywords |-> <<
       <<"s","c","a","l","a","b","l","e">>,
       <<"g","r","o","w","t","h">>,
       <<"e","x","p","a","n","s","i","o","n">>,
       <<"l","a","r","g","e","-","s","c","a","l","e">>,
       <<"e","n","t","e","r","p","r","i","s","e">> >>]
  >>

\* the category map of FeatureExtractor._categorize_technologies
category_map ==
  <<
    [category |-> "language", keywords |-> <<
       <<"p","y","t","h","o","n">>,
       <<"j","a","v","a","s","c","r","i","p","t">>,
       <<"j","a","v","a">>,
       <<"c","+","+">>,
       <<"c","#">>,
       <<"g","o">>,
       <<"r","u","s","t">>,
       <<"r","u","b","y">>,
       <<"p","h","p">>,
       <<"s","w","i","f","t">> >>],
    [category |-> "framework", keywords |-> <<
       <<"d","j","a","n","g","o">>,
       <<"f","l","a","s","k">>,
       <<"f","a","s","t","a","p","i">>,
       <<"e","x","p","r","e","s","s">>,
       <<"r","e","a","c","t">>,
       <<"v","u","e">>,
       <<"a","n","g","u","l","a","r">>,
       <<"s","p","r","i","n","g">>,
       <<"l","a","r","a","v","e","l">> >>],
    [category |-> "database", keywords |-> <<
       <<"p","o","s","t","g","r","e","s","q","l">>,
       <<"m","y","s","q","l">>,
       <<"m","o","n","g","o","d","b">>,
       <<"r","e","d","i","s">>,
       <<"e","l","a","s","t","i","c","s","e","a","r","c","h">>,
       <<"c","a","s","s","a","n","d","r","a">> >>],
    [category |-> "cloud", keywords |-> <<
       <<"a","w","s">>,
       <<"a","z","u","r","e">>,
       <<"g","o","o","g","l","e","_","c","l","o","u","d">>,
       <<"a","l","i","y","u","n">>,
       <<"h","e","r","o","k","u">> >>],
    [category |-> "tool", keywords |-> <<
       <<"d","o","c","k","e","r">>,
       <<"k","u","b","e","r","n","e","t","e","s">>,
       <<"g","i","t">>,
       <<"j","e","n","k","i","n","s">>,
       <<"t","e","r","r","a","f","o","r","m">> >>]
  >>

\* the popular technologies of _extract_tech_features
popular_tech ==
  << <<"p","y","t","h","o","n">>,
     <<"j","a","v","a","s","c","r","i","p","t">>,
     <<"r","e","a","c","t">>,
     <<"d","o","c","k","e","r">>,
     <<"p","o","s","t","g","r","e","s","q","l">> >>

\* the positive words of NLPProcessor._init_sentiment_lexicon
positive_words ==
  << <<"g","o","o","d">>,
     <<"g","r","e","a","t">>,
     <<"e","x","c","e","l","l","e","n","t">>,
     <<"a","w","e","s","o","m","e">>,
     <<"a","m","a","z","i","n","g">>,
     <<"b","e","s","t">>,
     <<"p","e","r","f","e","c","t">>,
     <<"w","o","n","d","e","r","f","u","l">>,
     <<"o","u","t","s","t","a","n","d","i","n","g">>,
     <<"s","u","p","e","r","b">>,
     <<"i","n","n","o","v","a","t","i","v","e">>,
     <<"c","r","e","a","t","i","v","e">>,
     <<"e","f","f","i","c","i","e","n","t">>,
     <<"r","e","l","i","a","b","l","e">>,
     <<"s","e","c","u","r","e">>,
     <<"f","a","s","t">>,
     <<"e","a","s","y">>,
     <<"s","i","m","p","l","e">>,
     <<"p","o","w","e","r","f","u","l">>,
     <<"f","l","e","x","i","b","l","e">> >>

\* the negative words of NLPProcessor._init_sentiment_lexicon
negative_words ==
  << <<"b","a","d">>,
     <<"p","o","o","r">>,
     <<"t","e","r","r","i","b","l","e">>,
     <<"a","w","f","u","l">>,
     <<"h","o","r","r","i","b","l","e">>,
     <<"w","o","r","s","t">>,
     <<"s","l","o","w">>,
     <<"d","i","f","f","i","c","u","l","t">>,
     <<"c","o","m","p","l","e","x">>,
     <<"h","a","r","d">>,
     <<"b","u","g","g","y">>,
     <<"u","n","s","t","a","b","l","e">>,
     <<"i","n","s","e","c","u","r","e">>,
     <<"o","u","t","d","a","t","e","d">>,
     <<"l","i","m","i","t","e","d">>,
     <<"b","r","o","k","e","n">>,
     <<"f","a","i","l","e","d">>,
     <<"e","r","r","o","r">>,
     <<"i","s","s","u","e">>,
     <<"p","r","o","b","l","e","m">> >>

\* a field of the record is truthy: a non-empty str, or a value of another
\* type
Truthy(v) == v # <<>> /\ v # None

\* the str values of the metadata dict, in dict order
MetadataStrings(metadata) == SelectSeq(metadata, IsStr)

\* a text field of the record is of a type str.join and str.lower reject
RaisesOnJoin(p) == p.name = NonStr \/ p.description = NonStr

\* the text parts _extract_text_features joins: name, description and the
\* str values of the metadata
TextParts(p) ==
  (IF Truthy(p.name) THEN <<p.name>> ELSE <<>>)
    \o (IF Truthy(p.description) THEN <<p.description>> ELSE <<>>)
    \o MetadataStrings(p.metadata)

FullText(p) == JoinSpace(TextParts(p))

\* the total length of the words of a list
RECURSIVE TotalLength(_)
TotalLength(words) ==
  IF words = <<>> THEN 0 ELSE Len(Head(words)) + TotalLength(Tail(words))

\* the readability number of _extract_text_features, in thousandths rounded
\* down:  206.835 - 1.015 * (words / sentences) - 84.6 * avg_word_length
ReadabilityScore(word_count, sentence_count, total_length) ==
  IF sentence_count > 0 /\ word_count > 0
  THEN (206835 * sentence_count * word_count
          - 1015 * word_count * word_count
          - 84600 * total_length * sentence_count)
         \div (sentence_count * word_count)
  ELSE 0

\* _extract_text_features (the features read downstream)
ExtractTextFeatures(p) ==
  LET full_text == FullText(p)
      words     == Split(Lower(full_text))
      sentence_count == Len(Runs(full_text, <<>>, "sentence_end")) + 1
  IN  [text_length       |-> Len(full_text),
       word_count        |-> Len(words),
       sentence_count    |-> sentence_count,
       vocabulary_size   |-> Cardinality(Range(words)),
       readability_score |-> ReadabilityScore(Len(words), sentence_count,
                                              TotalLength(words))]

\* the category of category_map a technology falls under, "other" if none
CategoryMapOf(tech) ==
  LET tech_lower == Lower(tech)
      hits == {i \in 1..Len(category_map) : tech_lower \in Range(category_map[i].keywords)}
  IN  IF hits = {} THEN "other"
      ELSE category_map[CHOOSE i \in hits : \A j \in hits : i <= j].category

\* _extract_tech_features, ratios in One units
ExtractTechFeatures(p) ==
  LET tech_stack == p.tech_stack
      n == Len(tech_stack)
      popular_count == Cardinality({i \in 1..n : Lower(tech_stack[i]) \in Range(popular_tech)})
  IN  [tech_count          |-> n,
       tech_diversity      |-> Min((One * Cardinality(Range(tech_stack))) \div Max(n, 1), One),
       tech_category_count |-> Cardinality({CategoryMapOf(tech_stack[i]) : i \in 1..n}),
       popular_tech_ratio  |-> (One * popular_count) \div Max(n, 1)]

\* _extract_metadata_features
ExtractMetadataFeatures(p) == [metadata_field_count |-> Len(p.metadata)]

\* the lower-cased text the keyword dictionaries are matched against
KeywordText(p) ==
  Lower((IF Truthy(p.name) THEN <<" ">> \o p.name ELSE <<>>)
          \o (IF Truthy(p.description) THEN <<" ">> \o p.description ELSE <<>>))

\* matched keywords / dictionary size, in One units
KeywordScore(keywords, text) ==
  (One * Cardinality({i \in 1..Len(keywords) : Contains(keywords[i], text)}))
    \div Max(Len(keywords), 1)

\* the score of one category of a keyword dictionary
CategoryScore(dictionary, category, text) ==
  LET entry == CHOOSE e \in Range(dictionary) : e.category = category
  IN  KeywordScore(entry.keywords, text)

\* the mean of the category scores of a dictionary
OverallScore(dictionary, text) ==
  SumSeq([i \in 1..Len(dictionary) |-> KeywordScore(dictionary[i].keywords, text)])
    \div Len(dictionary)

\* _extract_keyword_features
ExtractKeywordFeatures(p) ==
  LET text == KeywordText(p)
  IN  [quality_score_code          |-> CategoryScore(quality_keywords, "code", text),
       quality_score_architecture  |-> CategoryScore(quality_keywords, "architecture", text),
       quality_score_documentation |-> CategoryScore(quality_keywords, "documentation", text),
       quality_score_testing       |-> CategoryScore(quality_keywords, "testing", text),
       quality_score_security      |-> CategoryScore(quality_keywords, "security", text),
       overall_quality_score       |-> OverallScore(quality_keywords, text),
       innovation_score_novelty    |-> CategoryScore(innovation_keywords, "novelty", text),
       innovation_score_complexity |-> CategoryScore(innovation_keywords, "complexity", text),
       innovation_score_automation |-> CategoryScore(innovation_keywords, "automation", text),
       overall_innovation_score    |-> OverallScore(innovation_keywords, text),
       business_score_market       |-> CategoryScore(business_keywords, "market", text),
       business_score_user         |-> CategoryScore(business_keywords, "user", text),
       business_score_scale        |-> CategoryScore(business_keywords, "scale", text),
       overall_business_score      |-> OverallScore(business_keywords, text)]

\* _extract_complexity_features, ratios in One units
ExtractComplexityFeatures(existing) ==
  LET tech_count == existing.tech_count
      tech_complexity == Min((2 * One * tech_count + 3 * One * existing.tech_category_count)
                               \div 10, One)
      text_complexity == Min((One * (existing.text_length + 20 * existing.word_count))
                               \div 20000, One)
      metadata_complexity == Min((One * existing.metadata_field_count) \div 20, One)
  IN  [tech_complexity     |-> tech_complexity,
       text_complexity     |-> text_complexity,
       metadata_complexity |-> metadata_complexity,
       overall_complexity  |-> (tech_complexity + text_complexity + metadata_complexity) \div 3,
       project_size        |-> IF tech_count > 10 THEN 3
                               ELSE IF tech_count > 5 THEN 2
                               ELSE IF tech_count > 0 THEN 1
                               ELSE 0]

\* _calculate_derived_features, ratios in One units
CalculateDerivedFeatures(f) ==
  [maturity_score        |-> (f.overall_quality_score + f.popular_tech_ratio) \div 2,
   risk_score            |-> (f.overall_complexity * (One - f.overall_quality_score)) \div One,
   feasibility_score     |-> (f.popular_tech_ratio + (One - f.tech_diversity)) \div 2,
   maintainability_score |-> (f.quality_score_documentation + f.quality_score_code) \div 2,
   innovation_potential  |-> (f.overall_innovation_score + f.innovation_score_novelty) \div 2]

\* the dict of the except branch of extract_features
FeatureError == [feature_extraction_error |-> 1, text_length |-> 0, tech_count |-> 0]

\* extract_features: the feature groups merged in the order the code merges
\* them
ExtractFeatures(p) ==
  IF RaisesOnJoin(p) THEN FeatureError
  ELSE LET base == ExtractKeywordFeatures(p) @@ ExtractMetadataFeatures(p)
                     @@ ExtractTechFeatures(p) @@ ExtractTextFeatures(p)
           withComplexity == ExtractComplexityFeatures(base) @@ base
       IN  CalculateDerivedFeatures(withComplexity) @@ withComplexity

(***************************************************************************)
(* NLP analyzer (NLPProcessor): sentiment                                  *)
(***************************************************************************)

\* nltk.word_tokenize on simple text: the whitespace-separated pieces, a
\* trailing sentence mark or comma split off as a token of its own
PieceTokens(piece) ==
  IF Len(piece) > 1 /\ (IsSentenceEnd(piece[Len(piece)]) \/ piece[Len(piece)] = ",")
  THEN <<SubSeq(piece, 1, Len(piece) - 1), <<piece[Len(piece)]>> >>
  ELSE <<piece>>

RECURSIVE Flatten(_)
Flatten(ss) == IF ss = <<>> THEN <<>> ELSE Head(ss) \o Flatten(Tail(ss))

WordTokenize(text) ==
  LET pieces == Split(text) IN Flatten([i \in 1..Len(pieces) |-> PieceTokens(pieces[i])])

\* the polarity the sentiment lexicon gives a word
Polarity(word) ==
  IF word \in Range(negative_words) THEN -1
  ELSE IF word \in Range(positive_words) THEN 1
  ELSE 0

\* _analyze_sentiment: the summed polarity over the token count, in One
\* units rounded down
SentimentScore(text) ==
  LET words == WordTokenize(Lower(text))
  IN  IF Len(words) > 0
      THEN (One * SumSeq([i \in 1..Len(words) |-> Polarity(words[i])])) \div Len(words)
      ELSE 0

\* analyze_text (the part read downstream): the empty result for a text that
\* is empty, blank or not a str
AnalyzeText(text) ==
  IF ~IsStr(text) \/ Strip(text) = <<>>
  THEN [sentiment |-> [score |-> 0]]
  ELSE [sentiment |-> [score |-> SentimentScore(Strip(text))]]

(***************************************************************************)
(* Project classifier (ProjectClassifier)                                  *)
(***************************************************************************)

\* self.classes after train_model: the labels of _generate_training_data,
\* here in the order of the training data, one of the orders
\* list(set(labels)) can give
trained_classes ==
  <<"web_development", "mobile_app", "data_science", "machine_learning", "iot",
    "blockchain", "game_development", "desktop_application",
    "embedded_systems", "cloud_infrastructure">>

\* one label per group the scoring rules tell apart: an innovation
\* category, a business category, a category of neither list
PredictedClasses == {"machine_learning", "web_development", "desktop_application"}

\* the labels in the order of their names: the order in which the fitted
\* pipeline holds its classes and gives their probabilities
SortedClasses ==
  <<"blockchain", "cloud_infrastructure", "data_science",
    "desktop_application", "embedded_systems", "game_development", "iot",
    "machine_learning", "mobile_app", "web_development">>

\* the classes of a pipeline fitted on the labels of a training set
ModelClasses(labels) == SelectSeq(SortedClasses, LAMBDA c : c \in labels)

\* predict_proba of a pipeline of n classes for a text that makes its class
\* k the most likely one: a probability per class of the pipeline
ClassProbabilities(n, k) ==
  [i \in 1..n |->
     IF n = 2 THEN (IF i = k THEN (3 * One) \div 4 ELSE One \div 4)
     ELSE IF i = k THEN One \div 2
     ELSE IF i \in {(k % n) + 1, ((k + 1) % n) + 1} THEN One \div 4
     ELSE 0]

\* max(probabilities)
MaxProbability(probabilities) ==
  CHOOSE x \in Range(probabilities) : \A y \in Range(probabilities) : y <= x

\* the result predict builds from the label and the probabilities of the
\* pipeline: class_probs pairs self.classes with the probabilities by position
PredictionOf(classes, predicted_class, probabilities) ==
  [name                   |-> predicted_class,
   confidence             |-> MaxProbability(probabilities),
   category_probabilities |->
     [c \in Range(classes) |->
        probabilities[CHOOSE i \in 1..Len(classes) : classes[i] = c]],
   error                  |-> FALSE]

\* the predictions the trained model can return: a trained label with its
\* class probabilities
Predictions ==
  {PredictionOf(trained_classes, SortedClasses[k],
                ClassProbabilities(Len(trained_classes), k)) :
     k \in {i \in 1..Len(SortedClasses) : SortedClasses[i] \in PredictedClasses}}

\* no predict call made
NoClassifier == [classes |-> <<>>, model_classes |-> <<>>, stage |-> "none"]

ReplaceNonWord(c) == IF IsWordChar(c) \/ IsSpace(c) THEN c ELSE " "

\* _clean_text
CleanText(text) ==
  IF text = <<>> THEN <<>>
  ELSE LET lowered  == Lower(text)
           replaced == [i \in 1..Len(lowered) |-> ReplaceNonWord(lowered[i])]
       IN  JoinSpace(Split(replaced))

\* ProjectClassifier._extract_text_features
ClassifierText(p) ==
  CleanText(JoinSpace(
    (IF Truthy(p.name) THEN <<p.name>> ELSE <<>>)
      \o (IF Truthy(p.description) THEN <<p.description>> ELSE <<>>)
      \o (IF p.tech_stack # <<>> THEN <<JoinSpace(p.tech_stack)>> ELSE <<>>)
      \o MetadataStrings(p.metadata)))

UnknownCategory(isError) ==
  [name                   |-> "unknown",
   confidence             |-> 0,
   category_probabilities |-> [c \in {"unknown"} |-> One],
   error                  |-> isError]

\* predict; prediction is what the trained model answers for the text
Predict(p, prediction) ==
  IF RaisesOnJoin(p) THEN UnknownCategory(TRUE)
  ELSE IF Strip(ClassifierText(p)) # <<>> THEN prediction
  ELSE UnknownCategory(FALSE)

(***************************************************************************)
(* Analysis bundle (ml_models.analyze_project)                             *)
(***************************************************************************)

\* a risk assessment that reads the maintainability the extractor does
\* produce, under the key maintainability_score
AssessRisksByMaintainability(features, tech_result) ==
  LET outdated == Get(tech_result, "outdated_technologies", <<>>)
      dependency_count == Len(Get(tech_result, "dependencies", <<>>))
      l1 == IF outdated # <<>> THEN "medium" ELSE "low"
      l2 == IF dependency_count > 50 THEN "medium" ELSE l1
      l3 == IF "security_issues" \in DOMAIN features /\ features["security_issues"] > 0
            THEN "high" ELSE l2
      l4 == IF "maintainability_score" \in DOMAIN features
                 /\ features["maintainability_score"] * 10 < 3 * One
            THEN "medium" ELSE l3
  IN  [level |-> l4, outdated_technologies |-> outdated]

\* assess_risks: none of the keys it reads is produced by the analysers, so
\* each lookup takes its default
AssessRisks(features, tech_result) ==
  LET outdated == Get(tech_result, "outdated_technologies", <<>>)
      dependency_count == Len(Get(tech_result, "dependencies", <<>>))
      l1 == IF outdated # <<>> THEN "medium" ELSE "low"
      l2 == IF dependency_count > 50 THEN "medium" ELSE l1
      l3 == IF "security_issues" \in DOMAIN features /\ features["security_issues"] > 0
            THEN "high" ELSE l2
      l4 == IF "maintenance_score" \in DOMAIN features
                 /\ features["maintenance_score"] * 10 < 3 * One
            THEN "medium" ELSE l3
  IN  [level |-> l4, outdated_technologies |-> outdated]

\* ml_models.generate_recommendations
GenerateRecommendations(features, tech_result, category_result) ==
  LET category   == Get(category_result, "name", "")
      byCategory == IF category = "web_development"
                    THEN <<Rec("modern_frontend", <<>>), Rec("responsive_design", <<>>)>>
                    ELSE IF category = "machine_learning"
                    THEN <<Rec("ml_framework", <<>>), Rec("model_monitoring", <<>>)>>
                    ELSE <<>>
      outdated   == Get(tech_result, "outdated_technologies", <<>>)
      byOutdated == [i \in 1..Len(outdated) |-> Rec("upgrade_outdated", <<outdated[i]>>)]
      byDocs     == IF "documentation_score" \in DOMAIN features
                         /\ features["documentation_score"] * 2 < One
                    THEN <<Rec("more_docs", <<>>)>> ELSE <<>>
      byTests    == IF "test_coverage" \in DOMAIN features
                         /\ features["test_coverage"] * 10 < 3 * One
                    THEN <<Rec("more_tests", <<>>)>> ELSE <<>>
      bySecurity == IF "security_issues" \in DOMAIN features
                         /\ features["security_issues"] > 0
                    THEN <<Rec("fix_security", <<>>)>> ELSE <<>>
      specific   == byCategory \o byOutdated \o byDocs \o byTests \o bySecurity
      generic    == <<Rec("add_cicd", <<>>), Rec("add_monitoring", <<>>),
                      Rec("code_review", <<>>), Rec("add_containers", <<>>)>>
      all        == IF Len(specific) < 3
                    THEN specific \o SubSeq(generic, 1, 3 - Len(specific))
                    ELSE specific
  IN  SubSeq(all, 1, Min(10, Len(all)))

\* the bundle of the except branch of analyze_project
FallbackBundle ==
  [category            |-> [name |-> "unknown", confidence |-> 0],
   tech_stack_analysis |-> [detected_tech |-> <<>>, confidence |-> 0],
   features            |-> <<>>,
   nlp_analysis        |-> <<>>,
   risk_assessment     |-> [level |-> "medium"],
   recommendations     |-> <<Rec("analysis_error", <<>>)>>,
   error               |-> TRUE]

\* analyze_project with the models loaded; features is what
\* extract_features(p) returned and detected_tech what the detector found
AnalysisBundle(p, features, detected_tech, prediction, similarity) ==
  LET category_result == Predict(p, prediction)
      tech_result     == AnalyzeTechStack(p, detected_tech, similarity)
      nlp_analysis    == IF Truthy(p.description) THEN AnalyzeText(p.description)
                         ELSE <<>>
  IN  [category            |-> category_result,
       tech_stack_analysis |-> tech_result,
       features            |-> features,
       nlp_analysis        |-> nlp_analysis,
       risk_assessment     |-> AssessRisks(features, tech_result),
       recommendations     |-> GenerateRecommendations(features, tech_result,
                                                       category_result)]

\* analyze_project: when load_models fails the bundle is the fallback
AnalyzeProject(p, models_loaded, features, detected_tech, prediction, similarity) ==
  IF models_loaded
  THEN AnalysisBundle(p, features, detected_tech, prediction, similarity)
  ELSE FallbackBundle
(***************************************************************************)
(* Summary (NLPProcessor._generate_summary)                                *)
(***************************************************************************)

\* the default of the parameter max_sentences
max_sentences == 3

\* a summary that takes one leading sentence more: the first
\* ceil(max_sentences / 2) + 1 sentences and the last max_sentences \div 2
SummarySentencesCeil(sentences) ==
  IF Len(sentences) <= max_sentences THEN sentences
  ELSE SubSeq(sentences, 1, (max_sentences + 1) \div 2 + 1)
         \o SubSeq(sentences, Len(sentences) - max_sentences \div 2 + 1, Len(sentences))

\* the sentences _generate_summary keeps of the list sent_tokenize returned:
\* sentences[:max_sentences // 2 + 1] + sentences[-(max_sentences // 2):]
SummarySentences(sentences) ==
  IF Len(sentences) <= max_sentences THEN sentences
  ELSE SubSeq(sentences, 1, max_sentences \div 2 + 1)
         \o SubSeq(sentences, Len(sentences) - max_sentences \div 2 + 1, Len(sentences))

\* _generate_summary, given the list sent_tokenize returned for the text
GenerateSummary(sentences) ==
  IF sentences = <<>> THEN <<>> ELSE JoinSpace(SummarySentences(sentences))

\* no _generate_summary call made
NoSummary == [sentences |-> <<>>, summary |-> None]

\* no detection compared
NoDetection == [stage |-> "none"]

(***************************************************************************)
(* Scoring engine (backend/scoring.py)                                     *)
(*                                                                         *)
(* A scoring call receives the bundle b and the set bad of the places of   *)
(* the bundle that hold a malformed value: a container that is not a dict  *)
(* ("analysis_result", "features", "category", "tech_stack_analysis",      *)
(* "risk_assessment", "nlp_analysis") or a number that is not numeric.     *)
(* Using a malformed value raises where the Python code would raise.       *)
(***************************************************************************)

\* a ratio (One units) times a number of points, as a score in units
Scaled(ratio, points) == (ratio * points) \div (One \div Unit)

Points(n) == n * Unit

Features(b) == Get(b, "features", <<>>)

TechAnalysisOf(b) == Get(Get(b, "tech_stack_analysis", <<>>), "analysis", <<>>)

CategoryName(b, default) == Get(Get(b, "category", <<>>), "name", default)

RiskLevel(b) == Get(Get(b, "risk_assessment", <<>>), "level", "medium")

SentimentOf(b) == Get(Get(Get(b, "nlp_analysis", <<>>), "sentiment", <<>>), "score", 0)

\* the value stored under key in d is read and is malformed
BadValue(d, key, bad) == key \in DOMAIN d /\ key \in bad

\* reading nlp_analysis.sentiment.score and computing with it raises
SentimentRaises(b, bad) ==
  \/ BadValue(Get(b, "nlp_analysis", <<>>), "sentiment", bad)
  \/ BadValue(Get(Get(b, "nlp_analysis", <<>>), "sentiment", <<>>), "score", bad)

\* features[key] * points when the key is present, else nothing
FeaturePoints(features, key, points) ==
  IF key \in DOMAIN features THEN Scaled(features[key], points) ELSE 0

innovation_categories == {"machine_learning", "iot", "blockchain", "game_development"}

business_categories == {"web_development", "mobile_app", "data_science", "cloud_infrastructure"}

\* _calculate_quality_score
QualityRaises(b, bad) ==
  \/ "features" \in bad
  \/ BadValue(Features(b), "quality_score_code", bad)
  \/ "tech_stack_analysis" \in bad
  \/ BadValue(TechAnalysisOf(b), "maturity", bad)

CalculateQualityScore(b, bad) ==
  IF QualityRaises(b, bad) THEN Points(50)
  ELSE LET features == Features(b)
           tech_maturity == Get(TechAnalysisOf(b), "maturity", One \div 2)
       IN  Clamp(Points(50)
                 + FeaturePoints(features, "quality_score_code", 20)
                 + FeaturePoints(features, "quality_score_architecture", 15)
                 + FeaturePoints(features, "quality_score_documentation", 10)
                 + FeaturePoints(features, "quality_score_testing", 10)
                 + FeaturePoints(features, "quality_score_security", 5)
                 + Scaled(tech_maturity - One \div 2, 20))

\* _calculate_innovation_score
InnovationRaises(b, bad) ==
  \/ "features" \in bad
  \/ BadValue(Features(b), "innovation_score_novelty", bad)
  \/ "category" \in bad
  \/ "tech_stack_analysis" \in bad

CalculateInnovationScore(b, bad) ==
  IF InnovationRaises(b, bad) THEN Points(50)
  ELSE LET features == Features(b)
           outdated == Get(TechAnalysisOf(b), "outdated_technologies", <<>>)
       IN  Clamp(Points(50)
                 + FeaturePoints(features, "innovation_score_novelty", 25)
                 + FeaturePoints(features, "innovation_score_complexity", 20)
                 + FeaturePoints(features, "innovation_score_automation", 15)
                 + (IF CategoryName(b, "") \in innovation_categories THEN Points(10) ELSE 0)
                 + (IF outdated = <<>> THEN Points(5) ELSE 0))

\* _calculate_feasibility_score
FeasibilityRaises(b, bad) ==
  \/ "features" \in bad
  \/ BadValue(Features(b), "overall_complexity", bad)
  \/ "tech_stack_analysis" \in bad
  \/ BadValue(TechAnalysisOf(b), "maturity", bad)
  \/ "risk_assessment" \in bad

\* a feasibility rule that leaves out the size tier
CalculateFeasibilityScoreWithoutSize(b, bad) ==
  IF FeasibilityRaises(b, bad) THEN Points(50)
  ELSE LET features == Features(b)
           complexity == Get(features, "overall_complexity", One \div 2)
           tech_feasibility == Get(TechAnalysisOf(b), "maturity", One \div 2)
           risk_level == RiskLevel(b)
       IN  Clamp(Points(50)
                 - Scaled(complexity - One \div 2, 30)
                 + Scaled(tech_feasibility - One \div 2, 25)
                 + (IF risk_level = "high" THEN -Points(20)
                    ELSE IF risk_level = "medium" THEN -Points(10)
                    ELSE IF risk_level = "low" THEN Points(5)
                    ELSE 0)
                 + FeaturePoints(features, "maintainability_score", 15))

CalculateFeasibilityScore(b, bad) ==
  IF FeasibilityRaises(b, bad) THEN Points(50)
  ELSE LET features == Features(b)
           complexity == Get(features, "overall_complexity", One \div 2)
           tech_feasibility == Get(TechAnalysisOf(b), "maturity", One \div 2)
           size == Get(features, "project_size", 0)
           risk_level == RiskLevel(b)
       IN  Clamp(Points(50)
                 - Scaled(complexity - One \div 2, 30)
                 + Scaled(tech_feasibility - One \div 2, 25)
                 - (IF size = 3 THEN Points(15) ELSE IF size = 2 THEN Points(5) ELSE 0)
                 + (IF risk_level = "high" THEN -Points(20)
                    ELSE IF risk_level = "medium" THEN -Points(10)
                    ELSE IF risk_level = "low" THEN Points(5)
                    ELSE 0)
                 + FeaturePoints(features, "maintainability_score", 15))

\* _calculate_business_value_score
BusinessRaises(b, bad) ==
  \/ "features" \in bad
  \/ "category" \in bad
  \/ "nlp_analysis" \in bad
  \/ SentimentRaises(b, bad)

CalculateBusinessValueScore(b, bad) ==
  IF BusinessRaises(b, bad) THEN Points(50)
  ELSE LET features == Features(b)
       IN  Clamp(Points(50)
                 + FeaturePoints(features, "business_score_market", 25)
                 + FeaturePoints(features, "business_score_user", 20)
                 + FeaturePoints(features, "business_score_scale", 15)
                 + (IF CategoryName(b, "") \in business_categories THEN Points(10) ELSE 0)
                 + FeaturePoints(features, "innovation_potential", 10)
                 + Scaled(SentimentOf(b), 10))

\* the four dimension names, in the order the code reads their weights
Dimensions == <<"quality", "innovation", "feasibility", "business_value">>

\* round(x, 2) on a score given in units/100: the nearest hundredth of a
\* point, a tie going to the even hundredth; the result is in units
Round2(total) ==
  LET q == total \div Unit
      r == total % Unit
      hundredths == IF 2 * r > Unit THEN q + 1
                    ELSE IF 2 * r < Unit THEN q
                    ELSE q + (q % 2)
  IN  hundredths * (Unit \div 100)

\* the weight (0.25) of a dimension without a supplied weight, in hundredths
DefaultWeight == 25

\* the weight _calculate_overall_score gives a dimension, in hundredths
WeightOf(w, dimension) ==
  IF DOMAIN w = {} THEN DefaultWeight ELSE Get(w, dimension, DefaultWeight)

\* _calculate_overall_score
CalculateOverallScore(quality, innovation, feasibility, business_value, w) ==
  Round2(quality * WeightOf(w, "quality")
         + innovation * WeightOf(w, "innovation")
         + feasibility * WeightOf(w, "feasibility")
         + business_value * WeightOf(w, "business_value"))

\* a ScoringResult
ScoringResult(q, i, f, bv, overall, name, version, isError, adjusted) ==
  [quality_score |-> q, innovation_score |-> i, feasibility_score |-> f,
   business_value_score |-> bv, overall_score |-> overall,
   algorithm |-> name, algorithm_version |-> version,
   error |-> isError, adjusted |-> adjusted, custom_weights |-> <<>>]

\* _get_default_score
GetDefaultScore(name, version) ==
  ScoringResult(Points(50), Points(50), Points(50), Points(50), Points(50),
                name, version, TRUE, FALSE)

\* a calculate_score without the outer try/except: the values the helpers
\* return are assembled whatever happened in the body
BaseCalculateScoreUnguarded(b, bad, name, version) ==
  LET q  == CalculateQualityScore(b, bad)
      i  == CalculateInnovationScore(b, bad)
      f  == CalculateFeasibilityScore(b, bad)
      bv == CalculateBusinessValueScore(b, bad)
  IN  ScoringResult(q, i, f, bv, CalculateOverallScore(q, i, f, bv, <<>>),
                    name, version, FALSE, FALSE)

\* BaseScoringAlgorithm.calculate_score, run by an instance called name
BaseCalculateScore(b, bad, name, version) ==
  IF "analysis_result" \in bad THEN GetDefaultScore(name, version)
  ELSE LET q  == CalculateQualityScore(b, bad)
           i  == CalculateInnovationScore(b, bad)
           f  == CalculateFeasibilityScore(b, bad)
           bv == CalculateBusinessValueScore(b, bad)
       IN  IF "features" \in bad THEN GetDefaultScore(name, version)
           ELSE ScoringResult(q, i, f, bv, CalculateOverallScore(q, i, f, bv, <<>>),
                              name, version, FALSE, FALSE)

\* an adjustment dict in which a later rule overwrites the value an earlier
\* one stored for the dimension instead of adding to it
AdjustmentOverwriting(b, dimension) ==
  LET tech_diversity == Get(TechAnalysisOf(b), "diversity", One \div 2)
      risk_level     == RiskLevel(b)
      project_size   == Get(Features(b), "project_size", 0)
      sentiment      == SentimentOf(b)
      high_diversity == tech_diversity * 10 > 7 * One
      low_diversity  == ~high_diversity /\ tech_diversity * 10 < 3 * One
      positive       == sentiment * 10 > 2 * One
      negative       == ~positive /\ sentiment * 10 < -2 * One
  IN  IF dimension = "quality"
      THEN (IF negative THEN -5 ELSE IF risk_level = "high" THEN -10 ELSE 0)
      ELSE IF dimension = "innovation"
      THEN (IF project_size = 1 THEN -3 ELSE IF low_diversity THEN -3 ELSE 0)
      ELSE IF dimension = "feasibility"
      THEN (IF project_size = 3 THEN -10 ELSE IF project_size = 1 THEN 5
            ELSE IF risk_level = "high" THEN -15 ELSE IF risk_level = "low" THEN 5
            ELSE IF high_diversity THEN -5 ELSE 0)
      ELSE (IF positive THEN 3 ELSE IF project_size = 3 THEN 5
            ELSE IF low_diversity THEN -2 ELSE 0)

\* the adjustment dict of _apply_advanced_adjustments, as a function of the
\* dimension
Adjustment(b, dimension) ==
  LET tech_diversity == Get(TechAnalysisOf(b), "diversity", One \div 2)
      risk_level     == RiskLevel(b)
      project_size   == Get(Features(b), "project_size", 0)
      sentiment      == SentimentOf(b)
      high_diversity == tech_diversity * 10 > 7 * One
      low_diversity  == ~high_diversity /\ tech_diversity * 10 < 3 * One
      positive       == sentiment * 10 > 2 * One
      negative       == ~positive /\ sentiment * 10 < -2 * One
  IN  IF dimension = "quality"
      THEN (IF risk_level = "high" THEN -10 ELSE 0) + (IF negative THEN -5 ELSE 0)
      ELSE IF dimension = "innovation"
      THEN (IF low_diversity THEN -3 ELSE 0) + (IF project_size = 1 THEN -3 ELSE 0)
      ELSE IF dimension = "feasibility"
      THEN (IF high_diversity THEN -5 ELSE 0)
           + (IF risk_level = "high" THEN -15 ELSE IF risk_level = "low" THEN 5 ELSE 0)
           + (IF project_size = 3 THEN -10 ELSE IF project_size = 1 THEN 5 ELSE 0)
      ELSE (IF low_diversity THEN -2 ELSE 0)
           + (IF project_size = 3 THEN 5 ELSE 0)
           + (IF positive THEN 3 ELSE 0)

AdjustmentsRaise(b, bad) ==
  \/ "analysis_result" \in bad
  \/ "tech_stack_analysis" \in bad
  \/ BadValue(TechAnalysisOf(b), "diversity", bad)
  \/ "risk_assessment" \in bad
  \/ "features" \in bad
  \/ "nlp_analysis" \in bad
  \/ SentimentRaises(b, bad)

\* _apply_advanced_adjustments
ApplyAdvancedAdjustments(base_result, b, bad) ==
  IF AdjustmentsRaise(b, bad) THEN base_result
  ELSE LET q  == Clamp(base_result.quality_score + Points(Adjustment(b, "quality")))
           i  == Clamp(base_result.innovation_score + Points(Adjustment(b, "innovation")))
           f  == Clamp(base_result.feasibility_score + Points(Adjustment(b, "feasibility")))
           bv == Clamp(base_result.business_value_score
                       + Points(Adjustment(b, "business_value")))
       IN  ScoringResult(q, i, f, bv, CalculateOverallScore(q, i, f, bv, <<>>),
                         base_result.algorithm, "2.0.0", base_result.error, TRUE)

\* AdvancedScoringAlgorithm.calculate_score
AdvancedCalculateScore(b, bad) ==
  ApplyAdvancedAdjustments(BaseCalculateScore(b, bad, "advanced", "2.0.0"), b, bad)

\* _extract_ml_features raises on a container that is not a dict
MLFeaturesRaise(b, bad) ==
  \/ bad \cap {"analysis_result", "features", "risk_assessment", "nlp_analysis", "category"} # {}
  \/ BadValue(Get(b, "nlp_analysis", <<>>), "sentiment", bad)

\* the comparisons of _simulate_ml_prediction raise on a malformed number
SimulationRaises(b, bad) ==
  \/ BadValue(Features(b), "readability_score", bad)
  \/ BadValue(Features(b), "tech_count", bad)
  \/ BadValue(Features(b), "innovation_score_novelty", bad)

\* a rule table in which the quality adjustment of a large stack is added
\* to the adjustment of the readability instead of replacing it
SimulatedAdjustmentAdding(b, dimension) ==
  LET features    == Features(b)
      readability == Get(features, "readability_score", 0)
      tech_count  == Get(features, "tech_count", 0)
      novelty     == Get(features, "innovation_score_novelty", 0)
      risk_level  == RiskLevel(b)
      byRisk      == IF risk_level = "high" THEN -10
                     ELSE IF risk_level = "low" THEN 5 ELSE 0
  IN  IF dimension = "quality"
      THEN (IF tech_count > 5 THEN -3 ELSE 0)
             + (IF readability > 60000 THEN 10
                ELSE IF readability < 30000 THEN -5
                ELSE 0)
      ELSE IF dimension = "innovation"
      THEN (IF novelty * 2 > One THEN 15 ELSE 0)
      ELSE IF dimension = "feasibility"
      THEN (IF tech_count > 5 THEN -5 ELSE 0) + byRisk
      ELSE 0

\* the adjustment _simulate_ml_prediction gives a dimension, in points
SimulatedAdjustment(b, dimension) ==
  LET features    == Features(b)
      readability == Get(features, "readability_score", 0)
      tech_count  == Get(features, "tech_count", 0)
      novelty     == Get(features, "innovation_score_novelty", 0)
      risk_level  == RiskLevel(b)
      byRisk      == IF risk_level = "high" THEN -10
                     ELSE IF risk_level = "low" THEN 5 ELSE 0
  IN  IF dimension = "quality"
      THEN (IF tech_count > 5 THEN -3
            ELSE IF readability > 60000 THEN 10
            ELSE IF readability < 30000 THEN -5
            ELSE 0)
      ELSE IF dimension = "innovation"
      THEN (IF novelty * 2 > One THEN 15 ELSE 0)
      ELSE IF dimension = "feasibility"
      THEN (IF tech_count > 5 THEN -5 ELSE 0) + byRisk
      ELSE 0

\* _simulate_ml_prediction
SimulateMLPrediction(b, bad, dimension) ==
  IF SimulationRaises(b, bad) THEN Points(50)
  ELSE Clamp(Points(50) + Points(SimulatedAdjustment(b, dimension)))

\* MLBasedScoringAlgorithm.calculate_score: load_model always sets the model
\* handle, so the prediction is the simulated one
MLCalculateScore(b, bad) ==
  IF MLFeaturesRaise(b, bad) THEN AdvancedCalculateScore(b, bad)
  ELSE LET q  == SimulateMLPrediction(b, bad, "quality")
           i  == SimulateMLPrediction(b, bad, "innovation")
           f  == SimulateMLPrediction(b, bad, "feasibility")
           bv == SimulateMLPrediction(b, bad, "business_value")
       IN  ScoringResult(q, i, f, bv, CalculateOverallScore(q, i, f, bv, <<>>),
                         "ml_based", "3.0.0", FALSE, FALSE)

Algorithms == {"basic", "advanced", "ml_based"}

\* ScoringAlgorithmFactory.create_algorithm followed by calculate_score
CalculateScore(algo, b, bad) ==
  IF algo = "advanced" THEN AdvancedCalculateScore(b, bad)
  ELSE IF algo = "ml_based" THEN MLCalculateScore(b, bad)
  ELSE BaseCalculateScore(b, bad, "base", "1.0.0")

\* the weight map is truthy: a non-empty dict
HasWeights(w) == DOMAIN w # {}

\* an "if weights:" block that also rescales the quality score by its weight
ApplyCustomWeightsToQuality(scored, w) ==
  IF HasWeights(w)
  THEN [scored EXCEPT
          !.overall_score = CalculateOverallScore(scored.quality_score,
                              scored.innovation_score, scored.feasibility_score,
                              scored.business_value_score, w),
          !.quality_score = (scored.quality_score * Get(w, "quality", DefaultWeight)) \div 100,
          !.custom_weights = w]
  ELSE scored

\* the "if weights:" block of calculate_project_score: the overall score is
\* recomputed and assigned to the result, which does not validate
\* assignments
ApplyCustomWeights(scored, w) ==
  IF HasWeights(w)
  THEN [scored EXCEPT
          !.overall_score = CalculateOverallScore(scored.quality_score,
                              scored.innovation_score, scored.feasibility_score,
                              scored.business_value_score, w),
          !.custom_weights = w]
  ELSE scored

\* calculate_project_score, given the bundle analyze_project returned
CalculateProjectScore(analysis_result, algo, w) ==
  ApplyCustomWeights(CalculateScore(algo, analysis_result, {}), w)

\* sum(v.values()), in hundredths
RECURSIVE WeightTotal(_, _)
WeightTotal(w, keys) ==
  IF keys = {} THEN 0
  ELSE LET k == CHOOSE x \in keys : TRUE IN w[k] + WeightTotal(w, keys \ {k})

\* the tolerance (0.01) of validate_weights on the total, in hundredths
WeightTolerance == 1

\* ScoringRequest.validate_weights: the map is accepted
ValidateWeights(w) ==
  IF HasWeights(w)
  THEN LET total == WeightTotal(w, DOMAIN w)
       IN  ~(total - 100 > WeightTolerance \/ 100 - total > WeightTolerance)
  ELSE TRUE

(***************************************************************************)
(* Feature extractor: the shared statistical handles                       *)
(***************************************************************************)

\* the handles after FeatureExtractor.__init__: no vectorizer, no topic model
NoExtractor ==
  [vectorizer    |-> "none",
   fits_one      |-> FALSE,
   vocabulary    |-> {},
   feature_names |-> {},
   lda_model     |-> {}]

\* the terms of the corpus a cached vectorizer was trained on
TrainedVocabulary == {<<"s","c","a","l","a","b","l","e">>, <<"p","l","a","t","f","o","r","m">>}

\* the handles load_model can leave: none (no cache file), the pickled ones
\* of the cache file, or the unfitted ones _create_model builds when loading
\* raises. fits_one says whether the vectorizer accepts a fit on a single
\* document: that is decided by the document-frequency limits of the handle
\* inside the library.
ExtractorHandles ==
  {NoExtractor}
    \cup {[vectorizer    |-> "cached",
           fits_one      |-> accepts,
           vocabulary    |-> TrainedVocabulary,
           feature_names |-> TrainedVocabulary,
           lda_model     |-> {<<w, 1>> : w \in TrainedVocabulary}] : accepts \in BOOLEAN}
    \cup {[vectorizer    |-> "created",
           fits_one      |-> accepts,
           vocabulary    |-> {},
           feature_names |-> {},
           lda_model     |-> {}] : accepts \in BOOLEAN}

\* the terms the vectorizer takes from a text: its lowercased words of two
\* or more characters (the stop-word filter and the 2-grams are left out)
Terms(text) == {w \in Range(FindWords(Lower(text))) : Len(w) >= 2}

\* the document-term counts of a text under a vocabulary (vectorizer.transform)
TermCounts(vocabulary, text) ==
  LET words == FindWords(Lower(text))
  IN  {<<w, Cardinality({i \in 1..Len(words) : words[i] = w})>> : w \in vocabulary}

RECURSIVE Repeated(_, _)
Repeated(text, n) == IF n = 0 THEN <<>> ELSE text \o Repeated(text, n - 1)

\* the records the extractor is followed on: two whose text is longer than
\* 100 characters, and a short one
ExtractorRecords ==
  << [name |-> <<"X">>, description |-> Repeated(<<"s","c","a","l","a","b","l","e"," ","w","e","b"," ","s","e","r","v","i","c","e"," ">>, 5),
      tech_stack |-> <<>>, metadata |-> <<>>],
     [name |-> <<"X">>, description |-> Repeated(<<"s","e","c","u","r","e"," ","d","a","t","a"," ","p","l","a","t","f","o","r","m"," ">>, 5),
      tech_stack |-> <<>>, metadata |-> <<>>],
     [name |-> <<"X">>, description |-> <<"g","r","e","a","t"," ","j","s"," ","a","p","p">>,
      tech_stack |-> <<>>, metadata |-> <<>>] >>

\* per record: the features the branches before the topic branch compute,
\* the joined text, and what fit_transform counts in it (the vocabulary is
\* built from the document itself)
RecordFeatures ==
  << ExtractFeatures(ExtractorRecords[1]), ExtractFeatures(ExtractorRecords[2]),
     ExtractFeatures(ExtractorRecords[3]) >>

RecordText ==
  << FullText(ExtractorRecords[1]), FullText(ExtractorRecords[2]),
     FullText(ExtractorRecords[3]) >>

RecordTerms == << Terms(RecordText[1]), Terms(RecordText[2]), Terms(RecordText[3]) >>

RecordCounts ==
  << TermCounts(RecordTerms[1], RecordText[1]), TermCounts(RecordTerms[2], RecordText[2]),
     TermCounts(RecordTerms[3], RecordText[3]) >>

\* the topic branch of _extract_text_features is entered for record r and
\* its fit succeeds
FitsTopics(ext, r) ==
  /\ Len(RecordText[r]) > 100
  /\ ext.vectorizer # "none"
  /\ ext.fits_one

\* the topic features (topic_i_weight, main_topic, topic_entropy): what the
\* topic model, fitted with a fixed random_state, gives for a count matrix
TopicFeatures(counts) == [topic_distribution |-> counts]

\* what a vectorizer that is not refitted would count: the document under
\* the vocabulary the shared handle holds
ExtractorFeaturesStale(ext, r) ==
  IF FitsTopics(ext, r)
  THEN TopicFeatures(TermCounts(ext.vocabulary, RecordText[r])) @@ RecordFeatures[r]
  ELSE RecordFeatures[r]

\* extract_features on the shared extractor, for record r: the features it
\* returns
ExtractorFeatures(ext, r) ==
  IF FitsTopics(ext, r)
  THEN TopicFeatures(RecordCounts[r]) @@ RecordFeatures[r]
  ELSE RecordFeatures[r]

\* extract_features on the shared extractor, for record r: the handles it
\* leaves. The vectorizer and the topic model are refitted in place and
\* feature_names is assigned.
ExtractorAfter(ext, r) ==
  IF FitsTopics(ext, r)
  THEN [ext EXCEPT !.vocabulary    = RecordTerms[r],
                   !.feature_names = RecordTerms[r],
                   !.lda_model     = RecordCounts[r]]
  ELSE ext

\* no analyze_project call in flight
RequestIds == {1, 2}

NoRequest == [stage |-> "idle"]

NoRequests == [id \in RequestIds |-> NoRequest]

(***************************************************************************)
(* Inputs                                                                  *)
(***************************************************************************)

\* the longest tech_stack list handed to the tech stack analyser
MaxStack == 2

\* the longest tech_stack list of a project analysed or scored end to end
MaxScoredStack == 1

\* the largest number of malformed places in a bundle handed to
\* calculate_score
MaxFaults == 1

\* the longest project list of a batch call
MaxBatch == 2

\* the number of direct extract_features calls that are followed
MaxCalls == 3

\* the longest sentence list a summary is generated for
MaxSentences == 5

\* the most labels a training set of the classifier holds
MaxLabels == 3

\* tokens a caller writes in a tech_stack list
StackTokens ==
  { <<"p","y","t","h","o","n">>, <<"J","S">>, <<"j","q","u","e","r","y">> }

Names == { <<>>, <<"X">> }

\* descriptions: absent, a short text, a value that is not a str
Descriptions == { <<>>, <<"g","r","e","a","t"," ","j","s"," ","a","p","p">>, NonStr }

\* the values of the metadata dict, in dict order
Metadatas ==
  { <<>>, << <<"p","y">> >>, << NonStr >>, << <<"p","y">>, <<"g","o">> >>, << <<"g","o">>, <<"p","y">> >> }

\* Scenario A of the specification
ScenarioA ==
  [name |-> <<"X">>, description |-> <<>>,
   tech_stack |-> << <<"p","y","t","h","o","n">>, <<"f","a","s","t","a","p","i">>, <<"p","o","s","t","g","r","e","s","q","l">>, <<"d","o","c","k","e","r">> >>,
   metadata |-> <<>>]

\* tokens given to the normalizer besides the names and aliases of the
\* lexicon
ExtraTokens ==
  { <<"j","s">>, <<"p","y">>, <<"k","8","s">>, <<"p","y","t","h","o","n","3",".","9">>, <<"X">>, <<" "," ">>, <<"a">>, <<"c","o","b","o","l">>, <<"P","y","t","h","o","n"," ">>, <<" ","D","o","c","k","e","r"," ">>, <<" ","c","+","+"," ">>, <<"r","e","a","c","t"," ","n","a","t","i","v","e">>, <<"n","o","d","e",".","j","s">>, <<"J","Q","u","e","r","y">>, <<>> } \cup {None, NonStr}

\* the tech_stack lists of at most n tokens
Stacks(n) == UNION {[1..k -> StackTokens] : k \in 0..n}

ProjectsUpTo(n) ==
  [name : Names, description : Descriptions, tech_stack : Stacks(n),
   metadata : Metadatas] \cup {ScenarioA}

\* the project records handed to the tech stack analyser
Projects == ProjectsUpTo(MaxStack)

\* the project records analysed end to end
AnalysedProjects == ProjectsUpTo(MaxScoredStack)

\* the project records scored end to end
ScoredProjects ==
  [name : Names, description : Descriptions, tech_stack : Stacks(MaxScoredStack),
   metadata : {<<>>}] \cup {ScenarioA}

EmptyProject ==
  [name |-> <<>>, description |-> <<>>, tech_stack |-> <<>>, metadata |-> <<>>]

\* the project lists of a batch call
BatchPool == <<ScenarioA, EmptyProject>>

Batches == UNION {[1..k -> Range(BatchPool)] : k \in 1..MaxBatch}

\* every name and alias of the lexicon, and the extra tokens
Tokens ==
  {basic_tech[i].name : i \in 1..Len(basic_tech)}
    \cup UNION {Range(basic_tech[i].aliases) : i \in 1..Len(basic_tech)}
    \cup ExtraTokens

\* weight maps in hundredths; the empty map stands for an absent one (both
\* are falsy)
WeightMaps ==
  << <<>>,
     [quality |-> 25, innovation |-> 25, feasibility |-> 25, business_value |-> 25],
     [quality |-> 40, innovation |-> 30, feasibility |-> 20, business_value |-> 10],
     [quality |-> 100],
     [quality |-> 50, speed |-> 50],
     [innovation |-> 1100, feasibility |-> -1000],
     [quality |-> 200],
     [quality |-> 10, innovation |-> 10, feasibility |-> 10, business_value |-> 10] >>

\* the places of a bundle that can hold a malformed value
FaultPoints ==
  {"analysis_result", "features", "category", "tech_stack_analysis",
   "risk_assessment", "nlp_analysis", "sentiment", "score", "maturity",
   "diversity", "quality_score_code", "innovation_score_novelty",
   "overall_complexity", "readability_score"}

FaultSets == {bad \in SUBSET FaultPoints : Cardinality(bad) <= MaxFaults}

\* a hand-built bundle: the keys the scoring rules read
BundleOf(category, features, analysis, level, sentiment) ==
  [category            |-> [name |-> category, confidence |-> One \div 2],
   tech_stack_analysis |-> [analysis |-> analysis],
   features            |-> features,
   nlp_analysis        |-> [sentiment |-> [score |-> sentiment]],
   risk_assessment     |-> [level |-> level]]

\* the bundles handed to calculate_score directly: the fallback, an analysed
\* one, two hand-built ones, and one in the format of the analyzer for a
\* record whose detected technology is flagged outdated
SampleBundles ==
  << FallbackBundle,
     AnalysisBundle(ScenarioA, ExtractFeatures(ScenarioA),
                    DetectTechnologies(ScenarioA),
                    [name |-> "web_development", confidence |-> One \div 2,
                     error |-> FALSE],
                    One \div 2),
     BundleOf("machine_learning",
              [quality_score_code |-> One, innovation_score_novelty |-> One,
               overall_complexity |-> One, project_size |-> 3,
               readability_score |-> 70000, tech_count |-> 11],
              [maturity |-> One, diversity |-> (8 * One) \div 10],
              "high", -(One \div 2)),
     BundleOf("web_development",
              [quality_score_code |-> 0, innovation_score_novelty |-> 0,
               overall_complexity |-> 0, project_size |-> 1,
               readability_score |-> 40000, tech_count |-> 2],
              [maturity |-> One \div 2, diversity |-> One \div 10],
              "low", One \div 2),
     [category            |-> [name |-> "iot", confidence |-> One \div 2],
      tech_stack_analysis |->
        [detected_tech |-> << <<"j","q","u","e","r","y">> >>,
         tech_details  |-> << [normalized_name |-> <<"j","q","u","e","r","y">>,
                               is_outdated |-> TRUE] >>,
         analysis      |-> [maturity |-> (3 * One) \div 4, diversity |-> One \div 2]],
      features            |->
        [quality_score_code |-> One \div 2, innovation_score_novelty |-> One \div 2,
         innovation_score_complexity |-> One \div 4,
         innovation_score_automation |-> One \div 2,
         overall_complexity |-> One \div 4, project_size |-> 2,
         maintainability_score |-> One \div 2,
         readability_score |-> 40000, tech_count |-> 6],
      nlp_analysis        |-> [sentiment |-> [score |-> 0]],
      risk_assessment     |-> [level |-> "medium"]] >>

(***************************************************************************)
(* State machine                                                           *)
(***************************************************************************)

NoResult == <<>>

Init ==
  /\ models = "unloaded"
  /\ tech_definitions = <<>>
  /\ tech_aliases = <<>>
  /\ pc = "idle"
  /\ project = EmptyProject
  /\ token = None
  /\ algorithm = "basic"
  /\ weights = <<>>
  /\ bundle = <<>>
  /\ faults = {}
  /\ batch = <<>>
  /\ resolved = None
  /\ tech_analysis = <<>>
  /\ result = NoResult
  /\ results = <<>>
  /\ failed_projects = <<>>
  /\ outcome = "none"
  /\ detection = NoDetection
  /\ classifier = NoClassifier
  /\ nlp = NoSummary
  /\ extractions = <<>>
  /\ requests = NoRequests
  /\ extractor = NoExtractor
  /\ comparison = NoResult
  /\ project2 = EmptyProject

\* ml_models.load_models at application start-up (app.lifespan): either all
\* four models load, or a constructor or loader raises and the start-up
\* goes on without models
LoadModels ==
  /\ pc = "idle"
  /\ models = "unloaded"
  /\ \E loaded \in BOOLEAN :
       IF loaded
       THEN /\ models' = "loaded"
            /\ tech_definitions' = LoadedDefinitions
            /\ tech_aliases' = BuildAliasMapping(LoadedDefinitions)
       ELSE /\ models' = "failed"
            /\ UNCHANGED <<tech_definitions, tech_aliases>>
  /\ UNCHANGED <<pc, project, token, algorithm, weights, bundle, faults, batch,
                 resolved, tech_analysis, result, results, failed_projects,
                 outcome, project2, comparison, extractor, requests, extractions, nlp, classifier, detection>>

\* the arguments of a call, kept until it returns
Call(entry, p, tok, algo, w, b, bad, ps) ==
  /\ pc' = entry
  /\ project' = p
  /\ token' = tok
  /\ algorithm' = algo
  /\ weights' = w
  /\ bundle' = b
  /\ faults' = bad
  /\ batch' = ps
  /\ UNCHANGED <<models, tech_definitions, tech_aliases, project2, comparison, extractor, requests, extractions, nlp, classifier, detection>>

\* TechStackAnalyzer._normalize_tech_name
NormalizeTechNameCall ==
  /\ pc = "idle"
  /\ models = "loaded"
  /\ \E tok \in Tokens :
       /\ Call("normalize_tech_name", EmptyProject, tok, "basic", <<>>, <<>>, {}, <<>>)
       /\ resolved' = NormalizeTechName(tok)
  /\ UNCHANGED <<tech_analysis, result, results, failed_projects, outcome>>

\* TechStackAnalyzer.analyze_tech_stack
AnalyzeTechStackOf(p, detected_tech) ==
  \E similarity \in CohesionValues :
    /\ Call("analyze_tech_stack", p, None, "basic", <<>>, <<>>, {}, <<>>)
    /\ tech_analysis' = AnalyzeTechStack(p, detected_tech, similarity)

AnalyzeTechStackCall ==
  /\ pc = "idle"
  /\ models = "loaded"
  /\ \E p \in Projects \cup Range(ExtractorRecords) :
       AnalyzeTechStackOf(p, DetectTechnologies(p))
  /\ UNCHANGED <<resolved, result, results, failed_projects, outcome>>

\* ml_models.analyze_project
AnalyzeProjectOf(p, features, detected_tech) ==
  \E prediction \in Predictions, similarity \in CohesionValues :
    Call("analyze_project", p, None, "basic", <<>>,
         AnalyzeProject(p, models = "loaded", features, detected_tech, prediction,
                        similarity),
         {}, <<>>)

AnalyzeProjectCall ==
  /\ pc = "idle"
  /\ models # "unloaded"
  /\ \E p \in AnalysedProjects :
       AnalyzeProjectOf(p, ExtractFeatures(p), DetectTechnologies(p))
  /\ UNCHANGED <<resolved, tech_analysis, result, results, failed_projects, outcome>>

\* calculate_score of the algorithm the factory creates, on a given bundle
CalculateScoreOf(bundles) ==
  \E i \in 1..Len(bundles), bad \in FaultSets, algo \in Algorithms :
    /\ Call("calculate_score", EmptyProject, None, algo, <<>>, bundles[i], bad, <<>>)
    /\ result' = CalculateScore(algo, bundles[i], bad)

CalculateScoreCall ==
  /\ pc = "idle"
  /\ models # "unloaded"
  /\ CalculateScoreOf(SampleBundles)
  /\ outcome' = "ok"
  /\ UNCHANGED <<resolved, tech_analysis, results, failed_projects>>

\* no scoring rule reads the cohesion of the bundle, so the scoring entry
\* points are explored with one cohesion value
AnyCohesion == One \div 2

\* scoring.calculate_project_score called directly
CalculateProjectScoreOf(p, analysis_result) ==
  \E algo \in Algorithms, i \in 1..Len(WeightMaps) :
    /\ Call("calculate_project_score", p, None, algo, WeightMaps[i], analysis_result, {}, <<>>)
    /\ result' = CalculateProjectScore(analysis_result, algo, WeightMaps[i])
    /\ outcome' = "ok"

CalculateProjectScoreFor(p, features, detected_tech) ==
  \E prediction \in Predictions :
    CalculateProjectScoreOf(p, AnalyzeProject(p, models = "loaded", features,
                                              detected_tech, prediction, AnyCohesion))

CalculateProjectScoreCall ==
  /\ pc = "idle"
  /\ models # "unloaded"
  /\ \E p \in ScoredProjects :
       CalculateProjectScoreFor(p, ExtractFeatures(p), DetectTechnologies(p))
  /\ UNCHANGED <<resolved, tech_analysis, results, failed_projects>>

\* POST /scoring/: the ScoringRequest is validated, then
\* calculate_project_score is called with its weights
ScoreProjectOf(p, analysis_result) ==
  \E algo \in Algorithms, i \in 1..Len(WeightMaps) :
    /\ Call("score_project", p, None, algo, WeightMaps[i], <<>>, {}, <<>>)
    /\ IF ValidateWeights(WeightMaps[i])
       THEN /\ result' = CalculateProjectScore(analysis_result, algo, WeightMaps[i])
            /\ outcome' = "ok"
       ELSE /\ result' = NoResult
            /\ outcome' = "rejected"

ScoreProjectFor(p, features, detected_tech) ==
  \E prediction \in Predictions :
    ScoreProjectOf(p, AnalyzeProject(p, models = "loaded", features, detected_tech,
                                     prediction, AnyCohesion))

ScoreProjectRoute ==
  /\ pc = "idle"
  /\ models # "unloaded"
  /\ \E p \in ScoredProjects :
       ScoreProjectFor(p, ExtractFeatures(p), DetectTechnologies(p))
  /\ UNCHANGED <<resolved, tech_analysis, results, failed_projects>>

\* the bundle analyze_project returns for each project of the pool, for one
\* answer of the classifier per pool project
PoolBundle(k, predictions) ==
  AnalyzeProject(BatchPool[k], models = "loaded", ExtractFeatures(BatchPool[k]),
                 DetectTechnologies(BatchPool[k]), predictions[k], AnyCohesion)

PoolBundles(predictions) == << PoolBundle(1, predictions), PoolBundle(2, predictions) >>

\* the position of a project in the pool
PoolIndex(p) == CHOOSE k \in 1..Len(BatchPool) : BatchPool[k] = p

\* the results of calculate_project_score over a project list
BatchResults(ps, algo, w, bundles) ==
  [k \in 1..Len(ps) |-> CalculateProjectScore(bundles[PoolIndex(ps[k])], algo, w)]

\* scoring.batch_score_projects
BatchScoreProjectsOf(bundles) ==
  \E ps \in Batches, algo \in Algorithms, i \in 1..Len(WeightMaps) :
    /\ Call("batch_score_projects", EmptyProject, None, algo, WeightMaps[i], <<>>, {}, ps)
    /\ results' = BatchResults(ps, algo, WeightMaps[i], bundles)

BatchScoreProjectsCall ==
  /\ pc = "idle"
  /\ models # "unloaded"
  /\ \E predictions \in [1..Len(BatchPool) -> Predictions] :
       BatchScoreProjectsOf(PoolBundles(predictions))
  /\ failed_projects' = <<>>
  /\ outcome' = "ok"
  /\ UNCHANGED <<resolved, tech_analysis, result>>

\* POST /scoring/batch: a ScoringRequest is built for each project, so a
\* weight map it refuses fails every project
BatchScoreOf(bundles) ==
  \E ps \in Batches, algo \in Algorithms, i \in 1..Len(WeightMaps) :
    /\ Call("batch_score", EmptyProject, None, algo, WeightMaps[i], <<>>, {}, ps)
    /\ IF ValidateWeights(WeightMaps[i])
       THEN /\ results' = BatchResults(ps, algo, WeightMaps[i], bundles)
            /\ failed_projects' = <<>>
       ELSE /\ results' = <<>>
            /\ failed_projects' = ps

BatchScoreRoute ==
  /\ pc = "idle"
  /\ models # "unloaded"
  /\ \E predictions \in [1..Len(BatchPool) -> Predictions] :
       BatchScoreOf(PoolBundles(predictions))
  /\ outcome' = "ok"
  /\ UNCHANGED <<resolved, tech_analysis, result>>

(***************************************************************************)
(* Project comparison (POST /analysis/compare)                             *)
(***************************************************************************)

\* the stop words _init_nlp_tools falls back to; the nltk English list
\* holds each of them too
stop_words ==
  { <<"t","h","e">>, <<"a">>, <<"a","n">>, <<"a","n","d">>, <<"o","r">>, <<"b","u","t">>, <<"i","n">>, <<"o","n">>, <<"a","t">>, <<"t","o">>,
    <<"f","o","r">>, <<"o","f">>, <<"w","i","t","h">>, <<"b","y">> }

\* the tokens _calculate_text_similarity keeps of a text
ContentWords(text) == Range(WordTokenize(Lower(text))) \ stop_words

\* _calculate_text_similarity: the Jaccard ratio of the two token sets, in
\* One units
CalculateTextSimilarity(text1, text2) ==
  IF text1 = <<>> \/ text2 = <<>> THEN 0
  ELSE LET words1 == ContentWords(text1)
           words2 == ContentWords(text2)
           union  == Cardinality(words1 \cup words2)
       IN  IF union = 0 THEN 0
           ELSE (One * Cardinality(words1 \cap words2)) \div union

\* the text compare_projects builds of a record: f"{name} {description}"
CompareText(p) == p.name \o <<" ">> \o p.description

\* the comparison dict of compare_projects: the detected lists of the two
\* bundles, their common names, whether the categories agree, and the
\* similarity compare_texts returns
Comparison(p1, p2, bundle1, bundle2) ==
  LET tech1 == Get(Get(bundle1, "tech_stack_analysis", <<>>), "detected_tech", <<>>)
      tech2 == Get(Get(bundle2, "tech_stack_analysis", <<>>), "detected_tech", <<>>)
  IN  [success             |-> TRUE,
       tech_stack1         |-> tech1,
       tech_stack2         |-> tech2,
       category_similarity |-> CategoryName(bundle1, None) = CategoryName(bundle2, None),
       tech_overlap        |-> Range(tech1) \cap Range(tech2),
       text_similarity     |-> CalculateTextSimilarity(CompareText(p1), CompareText(p2))]

\* the answer of compare_projects when the NLPProcessor cannot be built
ComparisonError == [success |-> FALSE]

\* the names and descriptions of compared records: a one-letter name, a
\* name that is a stop word
CompareNames == { <<"X">>, <<"a">> }

CompareDescriptions == { <<>>, <<"g","r","e","a","t"," ","j","s"," ","a","p","p">> }

\* the records handed to compare_projects
CompareRecords ==
  [name : CompareNames, description : CompareDescriptions,
   tech_stack : {<<>>, << <<"p","y","t","h","o","n">> >>}, metadata : {<<>>}]

\* POST /analysis/compare: both records are analysed, an NLPProcessor is
\* built and the texts are compared. The classifier answers alike for two
\* records with the same text. With the models loaded the processor can be
\* built; when load_models failed its constructor may be what failed.
CompareProjectsOf(p1, p2, bundle1, bundle2) ==
  \E built \in (IF models = "loaded" THEN {TRUE} ELSE BOOLEAN) :
    /\ pc' = "compare_projects"
    /\ project' = p1
    /\ project2' = p2
    /\ comparison' = IF built THEN Comparison(p1, p2, bundle1, bundle2)
                     ELSE ComparisonError

CompareProjectsFor(p1, p2, features1, detected1, features2, detected2) ==
  \E prediction1 \in Predictions, prediction2 \in Predictions :
    /\ ClassifierText(p1) = ClassifierText(p2) => prediction1 = prediction2
    /\ CompareProjectsOf(p1, p2,
         AnalyzeProject(p1, models = "loaded", features1, detected1, prediction1,
                        AnyCohesion),
         AnalyzeProject(p2, models = "loaded", features2, detected2, prediction2,
                        AnyCohesion))

CompareProjectsRoute ==
  /\ pc = "idle"
  /\ models # "unloaded"
  /\ \E p1 \in CompareRecords, p2 \in CompareRecords :
       CompareProjectsFor(p1, p2, ExtractFeatures(p1), DetectTechnologies(p1),
                          ExtractFeatures(p2), DetectTechnologies(p2))
  /\ UNCHANGED <<models, tech_definitions, tech_aliases, token, algorithm, weights,
                 bundle, faults, batch, resolved, tech_analysis, result, results,
                 failed_projects, outcome, extractor, requests, extractions, nlp, classifier, detection>>

\* the caller takes the returned value; the next call starts afresh
Return ==
  /\ pc # "idle"
  /\ pc' = "idle"
  /\ project' = EmptyProject
  /\ token' = None
  /\ algorithm' = "basic"
  /\ weights' = <<>>
  /\ bundle' = <<>>
  /\ faults' = {}
  /\ batch' = <<>>
  /\ resolved' = None
  /\ tech_analysis' = <<>>
  /\ result' = NoResult
  /\ results' = <<>>
  /\ failed_projects' = <<>>
  /\ outcome' = "none"
  /\ comparison' = NoResult
  /\ project2' = EmptyProject
  /\ UNCHANGED <<models, tech_definitions, tech_aliases, extractor, requests, extractions, nlp, classifier, detection>>

Next ==
  \/ LoadModels
  \/ NormalizeTechNameCall
  \/ AnalyzeTechStackCall
  \/ AnalyzeProjectCall
  \/ CalculateScoreCall
  \/ CalculateProjectScoreCall
  \/ ScoreProjectRoute
  \/ BatchScoreProjectsCall
  \/ BatchScoreRoute
  \/ CompareProjectsRoute
  \/ Return

Spec == Init /\ [][Next]_vars

(***************************************************************************)
(* The shared feature extractor under repeated and interleaved calls       *)
(***************************************************************************)

\* the records analyze_project is followed on
AnalysedRecords == {1, 2}

\* the state after load_models: the lexicon is built and the extractor holds
\* one of the handles load_model can leave
ExtractorInit ==
  /\ models = "loaded"
  /\ tech_definitions = LoadedDefinitions
  /\ tech_aliases = BuildAliasMapping(LoadedDefinitions)
  /\ pc = "idle"
  /\ project = EmptyProject
  /\ token = None
  /\ algorithm = "basic"
  /\ weights = <<>>
  /\ bundle = <<>>
  /\ faults = {}
  /\ batch = <<>>
  /\ resolved = None
  /\ tech_analysis = <<>>
  /\ result = NoResult
  /\ results = <<>>
  /\ failed_projects = <<>>
  /\ outcome = "none"
  /\ comparison = NoResult
  /\ project2 = EmptyProject
  /\ extractor \in ExtractorHandles
  /\ requests = NoRequests
  /\ extractions = <<>>
  /\ nlp = NoSummary
  /\ classifier = NoClassifier
  /\ detection = NoDetection

callVars == << models, tech_definitions, tech_aliases, pc, project, token,
               algorithm, weights, bundle, faults, batch, resolved,
               tech_analysis, result, results, failed_projects, outcome,
               project2, comparison, nlp, classifier, detection >>

\* FeatureExtractor.extract_features called on the shared extractor
ExtractFeaturesOf(r) ==
  /\ extractions' = Append(extractions,
                           [record |-> r, features |-> ExtractorFeatures(extractor, r)])
  /\ extractor' = ExtractorAfter(extractor, r)

ExtractFeaturesCall ==
  /\ Len(extractions) < MaxCalls
  /\ \E r \in 1..Len(ExtractorRecords) : ExtractFeaturesOf(r)
  /\ UNCHANGED <<callVars, requests>>

\* a request enters analyze_project: the models are loaded, the call of
\* extract_features is awaited
StartAnalysis(id) ==
  /\ requests[id].stage = "idle"
  /\ \E r \in AnalysedRecords :
       requests' = [requests EXCEPT ![id] = [stage |-> "called", record |-> r]]
  /\ UNCHANGED <<callVars, extractor, extractions>>

\* features = await _feature_extractor.extract_features(project_data)
ExtractStep(id) ==
  /\ requests[id].stage = "called"
  /\ requests' = [requests EXCEPT ![id] =
                    [stage    |-> "extracted",
                     record   |-> requests[id].record,
                     features |-> ExtractorFeatures(extractor, requests[id].record)]]
  /\ extractor' = ExtractorAfter(extractor, requests[id].record)
  /\ UNCHANGED <<callVars, extractions>>

\* category_result = await _project_classifier.predict(project_data): the
\* classifier is loaded, predict reads the fitted pipeline only
PredictStep(id) ==
  /\ requests[id].stage = "extracted"
  /\ requests' = [requests EXCEPT ![id].stage = "classified"]
  /\ UNCHANGED <<callVars, extractor, extractions>>

\* tech_analysis = await _tech_stack_analyzer.analyze_tech_stack(project_data):
\* the analyzer reads its lexicon and transforms with its own vectorizer
AnalyzeTechStackStep(id) ==
  /\ requests[id].stage = "classified"
  /\ requests' = [requests EXCEPT ![id].stage = "detected"]
  /\ UNCHANGED <<callVars, extractor, extractions>>

\* what the classifier answers for the records followed
RecordPrediction ==
  PredictionOf(trained_classes, ModelClasses(Range(trained_classes))[1],
               ClassProbabilities(Len(trained_classes), 1))

\* the bundle analyze_project builds for a record from the features its
\* extract step returned
BundleFor(p, features) ==
  AnalysisBundle(p, features, DetectTechnologies(p), RecordPrediction, AnyCohesion)

\* nlp_analysis = await _nlp_processor.analyze_text(description), then the
\* bundle is put together and returned
AssembleStepOf(id, p) ==
  requests' = [requests EXCEPT ![id] =
                 [stage  |-> "done",
                  record |-> requests[id].record,
                  bundle |-> BundleFor(p, requests[id].features)]]

AssembleStep(id) ==
  /\ requests[id].stage = "detected"
  /\ AssembleStepOf(id, ExtractorRecords[requests[id].record])
  /\ UNCHANGED <<callVars, extractor, extractions>>

\* the caller takes the bundle
ReturnAnalysis(id) ==
  /\ requests[id].stage = "done"
  /\ requests' = [requests EXCEPT ![id] = NoRequest]
  /\ UNCHANGED <<callVars, extractor, extractions>>

\* repeated calls of extract_features on the shared extractor
ExtractionSpec == ExtractorInit /\ [][ExtractFeaturesCall]_vars

ConcurrentNext ==
  \/ \E id \in RequestIds : StartAnalysis(id)
  \/ \E id \in RequestIds : ExtractStep(id)
  \/ \E id \in RequestIds : PredictStep(id)
  \/ \E id \in RequestIds : AnalyzeTechStackStep(id)
  \/ \E id \in RequestIds : AssembleStep(id)
  \/ \E id \in RequestIds : ReturnAnalysis(id)

\* two requests in analyze_project, switching at the awaited calls
ConcurrentSpec == ExtractorInit /\ [][ConcurrentNext]_vars

(***************************************************************************)
(* The summary of a text, by the sentences of the text                     *)
(***************************************************************************)

\* sentences a tokenizer returns
SampleSentences == { <<"A",".">>, <<"B","!">>, <<"C","?">> }

\* the lists sent_tokenize returns for the texts summarised
SentenceLists == UNION {[1..k -> SampleSentences] : k \in 0..MaxSentences}

\* the state before _generate_summary is called on a text
SummaryInit ==
  /\ models = "loaded"
  /\ tech_definitions = LoadedDefinitions
  /\ tech_aliases = BuildAliasMapping(LoadedDefinitions)
  /\ pc = "idle"
  /\ project = EmptyProject
  /\ token = None
  /\ algorithm = "basic"
  /\ weights = <<>>
  /\ bundle = <<>>
  /\ faults = {}
  /\ batch = <<>>
  /\ resolved = None
  /\ tech_analysis = <<>>
  /\ result = NoResult
  /\ results = <<>>
  /\ failed_projects = <<>>
  /\ outcome = "none"
  /\ comparison = NoResult
  /\ project2 = EmptyProject
  /\ extractor = NoExtractor
  /\ requests = NoRequests
  /\ extractions = <<>>
  /\ classifier = NoClassifier
  /\ detection = NoDetection
  /\ \E sentences \in SentenceLists : nlp = [sentences |-> sentences, summary |-> None]

\* NLPProcessor._generate_summary(text)
GenerateSummaryCall ==
  /\ nlp.summary = None
  /\ nlp' = [nlp EXCEPT !.summary = GenerateSummary(nlp.sentences)]
  /\ UNCHANGED <<models, tech_definitions, tech_aliases, pc, project, token,
                 algorithm, weights, bundle, faults, batch, resolved,
                 tech_analysis, result, results, failed_projects, outcome,
                 project2, comparison, extractor, requests, extractions,
                 classifier, detection>>

SummarySpec == SummaryInit /\ [][GenerateSummaryCall]_vars
(***************************************************************************)
(* The classifier under the orders its labels can be collected in          *)
(***************************************************************************)

\* the label sets of the training data a classifier is trained on
LabelSets ==
  {labels \in SUBSET Range(SortedClasses) :
     Cardinality(labels) >= 2 /\ Cardinality(labels) <= MaxLabels}

\* the orders list(set(labels)) can give
Orders(labels) ==
  {classes \in [1..Cardinality(labels) -> labels] :
     \A i, j \in 1..Cardinality(labels) : classes[i] = classes[j] => i = j}

\* the state after train_model: self.classes holds the labels in some order,
\* the pipeline holds them in the order of their names
ClassifierInit ==
  /\ models = "loaded"
  /\ tech_definitions = LoadedDefinitions
  /\ tech_aliases = BuildAliasMapping(LoadedDefinitions)
  /\ pc = "idle"
  /\ project = EmptyProject
  /\ token = None
  /\ algorithm = "basic"
  /\ weights = <<>>
  /\ bundle = <<>>
  /\ faults = {}
  /\ batch = <<>>
  /\ resolved = None
  /\ tech_analysis = <<>>
  /\ result = NoResult
  /\ results = <<>>
  /\ failed_projects = <<>>
  /\ outcome = "none"
  /\ comparison = NoResult
  /\ project2 = EmptyProject
  /\ extractor = NoExtractor
  /\ requests = NoRequests
  /\ extractions = <<>>
  /\ nlp = NoSummary
  /\ detection = NoDetection
  /\ \E labels \in LabelSets : \E classes \in Orders(labels) :
       classifier = [classes |-> classes, model_classes |-> ModelClasses(labels),
                     stage |-> "trained"]

\* ProjectClassifier.predict on a record with a non-empty text: the pipeline
\* answers with one of its classes and the probabilities of its classes
PredictCall ==
  /\ classifier.stage = "trained"
  /\ \E k \in 1..Len(classifier.model_classes) :
       classifier' =
         [classes |-> classifier.classes, model_classes |-> classifier.model_classes,
          stage |-> "predicted",
          prediction |-> PredictionOf(classifier.classes, classifier.model_classes[k],
                                      ClassProbabilities(Len(classifier.model_classes), k))]
  /\ UNCHANGED <<models, tech_definitions, tech_aliases, pc, project, token,
                 algorithm, weights, bundle, faults, batch, resolved,
                 tech_analysis, result, results, failed_projects, outcome,
                 project2, comparison, extractor, requests, extractions, nlp,
                 detection>>

ClassifierSpec == ClassifierInit /\ [][PredictCall]_vars
(***************************************************************************)
(* The detector on a record and on the record after an addition            *)
(***************************************************************************)

\* words appended to a name or a description, and string values added to a
\* metadata dict
AddedWords == { <<"j","s">>, <<"g","o">> }

\* the records obtained from p by one addition: an entry at the end of
\* tech_stack, a string value in metadata, or a word at the end of the name
\* or of the description
Additions(p) ==
  {[p EXCEPT !.tech_stack = Append(p.tech_stack, t)] : t \in StackTokens}
    \cup {[p EXCEPT !.metadata = Append(p.metadata, v)] : v \in AddedWords}
    \cup {[p EXCEPT !.name = p.name \o <<" ">> \o w] : w \in AddedWords}
    \cup {[p EXCEPT !.description = p.description \o <<" ">> \o w] : w \in AddedWords}

\* the records the detector does not raise on
DetectableProjects == {p \in AnalysedProjects : ~RaisesOnText(p.description)}

\* the state before _detect_technologies is called on a record
DetectionInit ==
  /\ models = "loaded"
  /\ tech_definitions = LoadedDefinitions
  /\ tech_aliases = BuildAliasMapping(LoadedDefinitions)
  /\ pc = "idle"
  /\ project \in DetectableProjects
  /\ token = None
  /\ algorithm = "basic"
  /\ weights = <<>>
  /\ bundle = <<>>
  /\ faults = {}
  /\ batch = <<>>
  /\ resolved = None
  /\ tech_analysis = <<>>
  /\ result = NoResult
  /\ results = <<>>
  /\ failed_projects = <<>>
  /\ outcome = "none"
  /\ comparison = NoResult
  /\ project2 = EmptyProject
  /\ extractor = NoExtractor
  /\ requests = NoRequests
  /\ extractions = <<>>
  /\ nlp = NoSummary
  /\ classifier = NoClassifier
  /\ detection = NoDetection

\* _detect_technologies on the record and on the record after the addition
DetectBoth(p, larger, before, after) ==
  /\ project2' = larger
  /\ detection' = [stage |-> "compared", before |-> before, after |-> after]

DetectTechnologiesCall ==
  /\ detection.stage = "none"
  /\ \E larger \in Additions(project) :
       DetectBoth(project, larger, DetectTechnologies(project),
                  DetectTechnologies(larger))
  /\ UNCHANGED <<models, tech_definitions, tech_aliases, pc, project, token,
                 algorithm, weights, bundle, faults, batch, resolved,
                 tech_analysis, result, results, failed_projects, outcome,
                 comparison, extractor, requests, extractions, nlp,
                 classifier>>

DetectionSpec == DetectionInit /\ [][DetectTechnologiesCall]_vars

(***************************************************************************)
(* Properties                                                              *)
(***************************************************************************)

\* a score within the published range [0, 100]
InRange(x) == 0 <= x /\ x <= Points(100)

\* the five scores of a scoring result are within [0, 100]
ScoresInRange(r) ==
  /\ InRange(r.quality_score)
  /\ InRange(r.innovation_score)
  /\ InRange(r.feasibility_score)
  /\ InRange(r.business_value_score)
  /\ InRange(r.overall_score)

\* the score of one dimension in a scoring result
DimensionScore(r, dimension) ==
  IF dimension = "quality" THEN r.quality_score
  ELSE IF dimension = "innovation" THEN r.innovation_score
  ELSE IF dimension = "feasibility" THEN r.feasibility_score
  ELSE r.business_value_score

\* the weight a map supplies for a dimension: nothing when it does not name it
SuppliedWeight(w, dimension) == IF dimension \in DOMAIN w THEN w[dimension] ELSE 0

\* the weighted sum of the dimension scores over the supplied weights only,
\* rounded to two decimals
SuppliedWeightedSum(r, w) ==
  Round2(SumSeq([k \in 1..Len(Dimensions) |->
                   DimensionScore(r, Dimensions[k]) * SuppliedWeight(w, Dimensions[k])]))

\* C1: for any analysis bundle and any weight map whose values sum to 1
\* within 0.01 (or no map), calculate_project_score returns quality,
\* innovation, feasibility, business value and overall scores that all lie
\* in [0, 100].
C1_ScoresWithinRange ==
  (pc = "calculate_project_score" /\ ValidateWeights(weights))
    => ScoresInRange(result)

\* C2: when a weight map is supplied, the overall score is the sum of each
\* dimension score times its supplied weight, rounded to two decimals; a
\* dimension the map does not name contributes nothing.
C2_OverallUsesSuppliedWeightsOnly ==
  (pc = "calculate_project_score" /\ HasWeights(weights) /\ ValidateWeights(weights))
    => result.overall_score = SuppliedWeightedSum(result, weights)

\* a call that computed no score: the request was refused, or every project
\* of the batch was reported as failed
NoScoreComputed ==
  \/ outcome = "rejected"
  \/ pc = "batch_score" /\ results = <<>> /\ failed_projects = batch

\* C3: a weight map whose values do not sum to 1 within 0.01 is rejected
\* before any score is computed, on the scoring request, the batch request,
\* calculate_project_score and batch_score_projects alike.
C3_InvalidWeightsRejected ==
  (/\ pc \in {"score_project", "batch_score", "calculate_project_score",
              "batch_score_projects"}
   /\ ~ValidateWeights(weights))
    => NoScoreComputed

\* the default result of the failure policy
IsDefaultResult(r) ==
  /\ r.quality_score = Points(50)
  /\ r.innovation_score = Points(50)
  /\ r.feasibility_score = Points(50)
  /\ r.business_value_score = Points(50)
  /\ r.overall_score = Points(50)
  /\ r.error

\* an exception is raised in the body of the Base calculate_score, outside
\* the dimension helpers
BodyRaises(bad) == bad \cap {"analysis_result", "features"} # {}

\* an exception is raised inside one of the four dimension helpers
HelperRaises(b, bad) ==
  \/ QualityRaises(b, bad)
  \/ InnovationRaises(b, bad)
  \/ FeasibilityRaises(b, bad)
  \/ BusinessRaises(b, bad)

\* an exception is raised somewhere inside calculate_score of the algorithm
ExceptionRaised(algo, b, bad) ==
  IF algo = "ml_based" THEN MLFeaturesRaise(b, bad) \/ SimulationRaises(b, bad)
  ELSE \/ BodyRaises(bad)
       \/ HelperRaises(b, bad)
       \/ algo = "advanced" /\ AdjustmentsRaise(b, bad)

\* a dimension whose helper raised holds the neutral 50
RaisingHelpersGiveFifty(r, b, bad) ==
  /\ QualityRaises(b, bad) => r.quality_score = Points(50)
  /\ InnovationRaises(b, bad) => r.innovation_score = Points(50)
  /\ FeasibilityRaises(b, bad) => r.feasibility_score = Points(50)
  /\ BusinessRaises(b, bad) => r.business_value_score = Points(50)

C5_ScenarioA ==
  /\ (pc = "analyze_tech_stack" /\ project = ScenarioA) =>
       tech_analysis.detected_tech
         = << <<"d","o","c","k","e","r">>, <<"f","a","s","t","a","p","i">>, <<"p","o","s","t","g","r","e","s","q","l">>, <<"p","y","t","h","o","n">> >>
  /\ (pc = "calculate_project_score" /\ project = ScenarioA
        /\ algorithm = "basic" /\ ~HasWeights(weights)) =>
       (Points(40) <= result.overall_score /\ result.overall_score <= Points(70))

\* C6: when the tech_stack contains "jquery", the tech details hold an entry
\* for jquery marked outdated and a recommendation names jquery for upgrade.
C6_JqueryOutdated ==
  (pc = "analyze_tech_stack" /\ <<"j","q","u","e","r","y">> \in Range(project.tech_stack)) =>
    /\ \E d \in Range(Get(tech_analysis, "tech_details", <<>>)) :
         d.normalized_name = <<"j","q","u","e","r","y">> /\ d.is_outdated
    /\ \E r \in Range(Get(tech_analysis, "recommendations", <<>>)) :
         r.kind = "upgrade_outdated" /\ <<"j","q","u","e","r","y">> \in Range(r.techs)

\* a record with an empty description and an empty tech_stack
EmptyInput(p) == p.description = <<>> /\ p.tech_stack = <<>>

\* C7: a record with an empty description and an empty tech_stack, whatever
\* its name and metadata, is analysed as category "unknown" with confidence
\* 0 and an empty detected set, and all its scores lie in [0, 100].
C7_EmptyInput ==
  /\ (pc = "analyze_project" /\ EmptyInput(project)) =>
       /\ bundle.category.name = "unknown"
       /\ bundle.category.confidence = 0
       /\ bundle.tech_stack_analysis.detected_tech = <<>>
  /\ (pc \in {"calculate_project_score", "score_project"} /\ EmptyInput(project)
        /\ outcome = "ok") =>
       ScoresInRange(result)

\* every name of a detected list is a key of the loaded lexicon
AllCanonical(detected_tech) ==
  \A i \in 1..Len(detected_tech) : IsDefined(detected_tech[i])

\* C8: every name in the detected_tech list of analyze_tech_stack (and of the
\* bundle analyze_project builds from it) is a canonical key of the loaded
\* lexicon; a raw string that is not a canonical name never appears.
C8_DetectedNamesAreCanonical ==
  /\ pc = "analyze_tech_stack" => AllCanonical(tech_analysis.detected_tech)
  /\ pc = "analyze_project" => AllCanonical(bundle.tech_stack_analysis.detected_tech)

\* a tech_stack holding a raw string that is no lexicon key ("JS") was
\* analysed: its canonical name is detected, the raw string is not
C8_Witness ==
  /\ pc = "analyze_tech_stack"
  /\ <<"J","S">> \in Range(project.tech_stack)
  /\ ~IsDefined(<<"J","S">>)
  /\ <<"j","a","v","a","s","c","r","i","p","t">> \in Range(tech_analysis.detected_tech)
  /\ <<"J","S">> \notin Range(tech_analysis.detected_tech)

\* the rearrangements of a list
Rearrangements(s) ==
  {[i \in 1..Len(s) |-> s[f[i]]] : f \in Permutations(1..Len(s))}

\* strictly ascending, hence free of duplicates
StrictlyAscending(s) ==
  \A i \in 1..Len(s) : \A j \in 1..Len(s) : i < j => StrLess(s[i], s[j])

\* C9: for a fixed lexicon the detected list is strictly ascending (so free
\* of duplicates), and every rearrangement of the tech_stack entries and of
\* the metadata values gives the same list, element for element.
C9_DetectionIsCanonicallyOrdered ==
  (pc = "analyze_tech_stack" /\ "error" \notin DOMAIN tech_analysis) =>
    /\ StrictlyAscending(tech_analysis.detected_tech)
    /\ \A stack \in Rearrangements(project.tech_stack) :
         \A metadata \in Rearrangements(project.metadata) :
           DetectTechnologies([project EXCEPT !.tech_stack = stack,
                                              !.metadata = metadata])
             = tech_analysis.detected_tech

\* a two-entry tech_stack given in descending order of the canonical names
\* was analysed and the detected list is ascending
C9_Witness ==
  /\ pc = "analyze_tech_stack"
  /\ project.tech_stack = << <<"p","y","t","h","o","n">>, <<"J","S">> >>
  /\ project.name = <<>>
  /\ project.description = <<>>
  /\ tech_analysis.detected_tech = << <<"j","a","v","a","s","c","r","i","p","t">>, <<"p","y","t","h","o","n">> >>

\* C10: "js" resolves to javascript, "py" to python, "k8s" to kubernetes and
\* "python3.9" to python, and every alias of a lexicon entry resolves to the
\* canonical name of that entry.
C10_AliasResolution ==
  pc = "normalize_tech_name" =>
    /\ token = <<"j","s">> => resolved = <<"j","a","v","a","s","c","r","i","p","t">>
    /\ token = <<"p","y">> => resolved = <<"p","y","t","h","o","n">>
    /\ token = <<"k","8","s">> => resolved = <<"k","u","b","e","r","n","e","t","e","s">>
    /\ token = <<"p","y","t","h","o","n","3",".","9">> => resolved = <<"p","y","t","h","o","n">>
    /\ \A i \in 1..Len(tech_definitions) :
         token \in Range(tech_definitions[i].aliases)
           => resolved = tech_definitions[i].name

\* the alias "k8s" was resolved to kubernetes
C10_Witness ==
  /\ pc = "normalize_tech_name"
  /\ token = <<"k","8","s">>
  /\ \E i \in 1..Len(tech_definitions) : token \in Range(tech_definitions[i].aliases)
  /\ resolved = <<"k","u","b","e","r","n","e","t","e","s">>

\* C11: two records with the same tech_stack and the same description
\* compare with text similarity 1.0 and a tech_overlap that is the whole
\* detected set of either record.
C11_IdenticalRecordsCompareEqual ==
  (/\ pc = "compare_projects"
   /\ comparison.success
   /\ project.tech_stack = project2.tech_stack
   /\ project.description = project2.description)
    => /\ comparison.text_similarity = One
       /\ comparison.tech_overlap = Range(comparison.tech_stack1)
       /\ comparison.tech_overlap = Range(comparison.tech_stack2)

\* an analysis stage raises inside analyze_project: the analysers are not
\* available, or a text field of the record is of a type the stages reject
AnalysisStageRaises(p) == models = "failed" \/ RaisesOnJoin(p)

\* C12: when an analysis stage raises inside analyze_project, the bundle
\* falls back to category "unknown" and an empty tech set, and the
\* ScoringResult computed from that bundle has every score at 50 and carries
\* the error marker.
C12_AnalysisFailureYieldsDefaults ==
  /\ (pc = "analyze_project" /\ AnalysisStageRaises(project)) =>
       /\ bundle.category.name = "unknown"
       /\ bundle.tech_stack_analysis.detected_tech = <<>>
  /\ (pc = "calculate_project_score" /\ AnalysisStageRaises(project)
        /\ ~HasWeights(weights)) =>
       IsDefaultResult(result)

\* the four dimension scores and the overall score of two results agree
SameScores(r1, r2) ==
  /\ r1.quality_score = r2.quality_score
  /\ r1.innovation_score = r2.innovation_score
  /\ r1.feasibility_score = r2.feasibility_score
  /\ r1.business_value_score = r2.business_value_score
  /\ r1.overall_score = r2.overall_score

\* C13: when the ML-based calculate_score meets an internal failure (an
\* exception in the ML feature extraction or in the rule-table prediction),
\* the scores it returns are those the Advanced algorithm returns for the
\* same bundle.
C13_MLFailureFallsBackToAdvanced ==
  (/\ pc = "calculate_score"
   /\ algorithm = "ml_based"
   /\ ExceptionRaised("ml_based", bundle, faults))
    => SameScores(result, AdvancedCalculateScore(bundle, faults))

\* the sum of the values of a probability dict
RECURSIVE SumOver(_, _)
SumOver(d, keys) ==
  IF keys = {} THEN 0
  ELSE LET k == CHOOSE x \in keys : TRUE
       IN  d[k] + SumOver(d, keys \ {k})

\* a well-formed CategoryPrediction: confidence in [0, 1] and equal to the
\* largest probability, a distribution over all categories that sums to 1
WellFormedPrediction(c) ==
  LET d == c.category_probabilities
  IN  /\ 0 <= c.confidence /\ c.confidence <= One
      /\ \A k \in DOMAIN d : d[k] <= c.confidence
      /\ \E k \in DOMAIN d : d[k] = c.confidence
      /\ DOMAIN d = Range(trained_classes)
      /\ SumOver(d, DOMAIN d) = One

\* C14: every result of predict, for non-empty text, for empty text and on
\* error, has a confidence in [0, 1] equal to the maximum of its probability
\* distribution, and the distribution ranges over all categories and sums
\* to 1.
C14_PredictionIsDistribution ==
  (pc = "analyze_project" /\ models = "loaded")
    => WellFormedPrediction(bundle.category)

\* the state shared between requests: the loaded lexicon and the handles of
\* the feature extractor
SharedState == <<models, tech_definitions, tech_aliases, extractor>>

\* every finished request holds the bundle its record gets when it is
\* analysed alone
BundlesAsAlone ==
  \A id \in RequestIds :
    requests[id].stage = "done" =>
      requests[id].bundle
        = BundleFor(ExtractorRecords[requests[id].record],
                    ExtractorFeatures(extractor, requests[id].record))

C16_ExtractionIsIdempotent ==
  \A i \in 1..Len(extractions), j \in 1..Len(extractions) :
    extractions[i].record = extractions[j].record
      => extractions[i].features = extractions[j].features

\* a record with topic features is extracted, another record is extracted
\* and refits the shared handles, and the first record is extracted again
C16_Witness ==
  /\ Len(extractions) >= 3
  /\ extractions[1].record = 1
  /\ extractions[2].record = 2
  /\ extractions[3].record = 1
  /\ "topic_distribution" \in DOMAIN extractions[3].features
  /\ extractor.vocabulary = RecordTerms[1]
  /\ extractions[3].features = extractions[1].features

\* the lexicon positions whose key contains the token or is contained in it
ContainmentHits(t) ==
  {i \in 1..Len(tech_definitions) :
     \/ Contains(tech_definitions[i].name, t)
     \/ Contains(t, tech_definitions[i].name)}

\* C17: _normalize_tech_name returns the result of the first stage that
\* matches, in the order exact lowercase match, alias lookup, exact match
\* after stripping digits and punctuation, substring containment. The
\* substring stage returns the first key in lexicon order that contains the
\* token or is contained in it; when no stage matches the result is None.
C17_ResolveStageOrder ==
  (pc = "normalize_tech_name" /\ IsStr(token) /\ token # <<>>) =>
    LET t       == Lower(Strip(token))
        clean   == CleanTechName(t)
        exact   == IsDefined(t)
        alias   == t \in DOMAIN tech_aliases
        cleaned == clean # <<>> /\ IsDefined(clean)
        hits    == ContainmentHits(t)
        early   == exact \/ alias \/ cleaned
    IN  /\ exact => resolved = t
        /\ (~exact /\ alias) => resolved = tech_aliases[t]
        /\ (~exact /\ ~alias /\ cleaned) => resolved = clean
        /\ (~early /\ hits # {}) =>
             resolved = tech_definitions[CHOOSE i \in hits : \A j \in hits : i <= j].name
        /\ (~early /\ hits = {}) => resolved = None

\* the token "a" matches no earlier stage and is contained in several keys:
\* the first of them in lexicon order, javascript, is returned
C17_Witness ==
  /\ pc = "normalize_tech_name"
  /\ token = <<"a">>
  /\ ~IsDefined(token)
  /\ token \notin DOMAIN tech_aliases
  /\ Cardinality(ContainmentHits(token)) > 1
  /\ resolved = <<"j","a","v","a","s","c","r","i","p","t">>

\* ten times a number of points, in score units
TenthsOfPoints(n) == 10 * Points(n)

\* clamp to [0, 100], on ten times a score
ClampTenths(x) == Max(0, Min(x, TenthsOfPoints(100)))

\* a score agrees with ten times its stated value up to the rounding of the
\* three products of a rule (one score unit each, a 6000th of a point)
WithinRounding(score, tenths) ==
  /\ 10 * score <= tenths + 30
  /\ 10 * score >= tenths - 30

\* the Base algorithm computed the dimensions of a well-formed bundle
BaseScored ==
  /\ pc = "calculate_score"
  /\ algorithm = "basic"
  /\ faults = {}

\* the feasibility the rule states, times ten: ratios are in One units, and
\* a ratio times a number of points is ten times the score units
StatedFeasibility(b) ==
  LET features   == Get(b, "features", <<>>)
      analysis   == Get(Get(b, "tech_stack_analysis", <<>>), "analysis", <<>>)
      complexity == Get(features, "overall_complexity", One \div 2)
      maturity   == Get(analysis, "maturity", One \div 2)
      size       == Get(features, "project_size", 0)
      level      == Get(Get(b, "risk_assessment", <<>>), "level", "medium")
      maintain   == Get(features, "maintainability_score", 0)
  IN  TenthsOfPoints(50)
        - (complexity - One \div 2) * 30
        + (maturity - One \div 2) * 25
        - TenthsOfPoints(CASE size = 3 -> 15 [] size = 2 -> 5 [] OTHER -> 0)
        + TenthsOfPoints(CASE level = "high" -> -20 [] level = "medium" -> -10
                           [] level = "low" -> 5 [] OTHER -> 0)
        + maintain * 15

\* C18: the Base feasibility is the clamp to [0, 100] of 50 - (overall
\* complexity - 0.5) x 30 + (tech maturity - 0.5) x 25 - 15 or 5 for the
\* large or medium size tier + (-20, -10, +5 for high, medium, low risk)
\* + maintainability x 15, with complexity and maturity defaulting to 0.5 and
\* the risk level to medium.
C18_BaseFeasibilityRule ==
  BaseScored =>
    WithinRounding(result.feasibility_score, ClampTenths(StatedFeasibility(bundle)))

\* a medium-sized, medium-risk bundle with a maintainability score was
\* scored: 50 + 7.5 + 6.25 - 5 - 10 + 7.5 = 56.25
C18_Witness ==
  /\ BaseScored
  /\ Get(Features(bundle), "project_size", 0) = 2
  /\ RiskLevel(bundle) = "medium"
  /\ Get(Features(bundle), "maintainability_score", 0) = One \div 2
  /\ result.feasibility_score = Points(56) + Points(1) \div 4

\* none of the detected technologies of the bundle is flagged outdated by
\* the detector (_is_outdated_tech)
NoDetectedTechOutdated(b) ==
  \A i \in 1..Len(Get(Get(b, "tech_stack_analysis", <<>>), "detected_tech", <<>>)) :
    ~IsOutdatedTech(b.tech_stack_analysis.detected_tech[i])

\* the innovation the rule states, times ten
StatedInnovation(b) ==
  LET features == Get(b, "features", <<>>)
      category == Get(Get(b, "category", <<>>), "name", "")
  IN  TenthsOfPoints(50)
        + Get(features, "innovation_score_novelty", 0) * 25
        + Get(features, "innovation_score_complexity", 0) * 20
        + Get(features, "innovation_score_automation", 0) * 15
        + (IF category \in {"machine_learning", "iot", "blockchain", "game_development"}
           THEN TenthsOfPoints(10) ELSE 0)
        + (IF NoDetectedTechOutdated(b) THEN TenthsOfPoints(5) ELSE 0)

\* C19: the Base innovation is the clamp to [0, 100] of 50 + novelty x 25
\* + tech complexity x 20 + automation x 15 + 10 for the categories
\* machine_learning, iot, blockchain, game_development + 5, the 5 being
\* added exactly when no detected technology is flagged outdated by the
\* detector.
C19_BaseInnovationRule ==
  BaseScored =>
    WithinRounding(result.innovation_score, ClampTenths(StatedInnovation(bundle)))

\* the adjustments of the second pass as the rule lists them: condition,
\* dimension, signed points
AdvancedRules(b) ==
  LET analysis  == Get(Get(b, "tech_stack_analysis", <<>>), "analysis", <<>>)
      diversity == Get(analysis, "diversity", One \div 2)
      level     == Get(Get(b, "risk_assessment", <<>>), "level", "medium")
      size      == Get(Get(b, "features", <<>>), "project_size", 0)
      sentiment == Get(Get(Get(b, "nlp_analysis", <<>>), "sentiment", <<>>), "score", 0)
  IN  << <<10 * diversity > 7 * One, "feasibility", -5>>,
         <<10 * diversity < 3 * One, "innovation", -3>>,
         <<10 * diversity < 3 * One, "business_value", -2>>,
         <<level = "high", "feasibility", -15>>,
         <<level = "high", "quality", -10>>,
         <<level = "low", "feasibility", 5>>,
         <<size = 3, "feasibility", -10>>,
         <<size = 3, "business_value", 5>>,
         <<size = 1, "feasibility", 5>>,
         <<size = 1, "innovation", -3>>,
         <<10 * sentiment > 2 * One, "business_value", 3>>,
         <<10 * sentiment < -2 * One, "quality", -5>> >>

\* the signed sum of the adjustments that apply to a dimension
RECURSIVE SumOfRules(_, _)
SumOfRules(rules, dimension) ==
  IF rules = <<>> THEN 0
  ELSE (IF Head(rules)[1] /\ Head(rules)[2] = dimension THEN Head(rules)[3] ELSE 0)
         + SumOfRules(Tail(rules), dimension)

\* a Base dimension plus the adjustments that apply to it, clamped
Adjusted(base, b, dimension) ==
  Clamp(base + Points(SumOfRules(AdvancedRules(b), dimension)))

\* the Advanced algorithm scored a well-formed bundle
AdvancedScored ==
  /\ pc = "calculate_score"
  /\ algorithm = "advanced"
  /\ faults = {}

\* C20: each Advanced dimension is the clamp to [0, 100] of the Base
\* dimension plus the signed sum of the adjustments that apply (diversity,
\* risk level, size tier, sentiment), and the overall score is recomputed
\* from the adjusted dimensions.
C20_AdvancedAdjustments ==
  AdvancedScored =>
    /\ result.quality_score
         = Adjusted(CalculateQualityScore(bundle, {}), bundle, "quality")
    /\ result.innovation_score
         = Adjusted(CalculateInnovationScore(bundle, {}), bundle, "innovation")
    /\ result.feasibility_score
         = Adjusted(CalculateFeasibilityScore(bundle, {}), bundle, "feasibility")
    /\ result.business_value_score
         = Adjusted(CalculateBusinessValueScore(bundle, {}), bundle, "business_value")
    /\ result.overall_score
         = Round2(25 * (result.quality_score + result.innovation_score
                          + result.feasibility_score + result.business_value_score))

\* a small, low-risk bundle with low diversity and a positive sentiment was
\* scored: feasibility gains 5 + 5, innovation loses 3 + 3, business value
\* changes by -2 + 3
C20_Witness ==
  /\ AdvancedScored
  /\ RiskLevel(bundle) = "low"
  /\ Get(Features(bundle), "project_size", 0) = 1
  /\ result.feasibility_score = CalculateFeasibilityScore(bundle, {}) + Points(10)
  /\ result.innovation_score = CalculateInnovationScore(bundle, {}) - Points(6)
  /\ result.business_value_score = CalculateBusinessValueScore(bundle, {}) + Points(1)

\* the categories of the loaded lexicon
LexiconCategories ==
  {tech_definitions[i].category : i \in 1..Len(tech_definitions)}

\* the distinct categories of a list of detected technologies
DetectedCategories(detected_tech) ==
  {CategoryOf(detected_tech[i], "unknown") : i \in 1..Len(detected_tech)}

\* analyze_tech_stack returned without entering its except branch
TechStackAnalysed ==
  /\ pc = "analyze_tech_stack"
  /\ "error" \notin DOMAIN tech_analysis

\* C21: the diversity of the analysis is the number of distinct categories
\* among the detected technologies divided by the number of categories of
\* the lexicon, so a detected stack covering every category has diversity 1.
C21_DiversityIsCategoryShare ==
  TechStackAnalysed =>
    /\ tech_analysis.analysis.diversity
         = (One * Cardinality(DetectedCategories(tech_analysis.detected_tech)))
             \div Cardinality(LexiconCategories)
    /\ DetectedCategories(tech_analysis.detected_tech) = LexiconCategories
         => tech_analysis.analysis.diversity = One

\* C22: the cohesion of the analysis is 1.0 whenever at most one technology
\* is detected, for exactly one and for none.
C22_CohesionOfAtMostOne ==
  /\ TechStackAnalysed
  /\ Len(tech_analysis.detected_tech) <= 1
  => tech_analysis.analysis.cohesion = One

\* the confidence the rule states for a record and its detected list, in
\* One units: 0.4 for a declared stack, 0.1 per detected technology up to
\* 0.3, 0.2 for a description of more than 100 characters, 0.1 times the
\* share of detected names that are lexicon names, capped at 1
StatedConfidence(p, detected_tech) ==
  LET declared == IF Len(p.tech_stack) > 0 THEN 4 ELSE 0
      counted  == Min(3, Len(detected_tech))
      detailed == IF Len(p.description) > 100 THEN 2 ELSE 0
      exact    == Cardinality({i \in 1..Len(detected_tech) :
                                 \E k \in 1..Len(tech_definitions) :
                                   tech_definitions[k].name = detected_tech[i]})
      share    == IF Len(detected_tech) = 0 THEN 0
                  ELSE (One * exact) \div (10 * Len(detected_tech))
  IN  Min(One, ((declared + counted + detailed) * One) \div 10 + share)

\* C23: the detection confidence is the capped sum of the four stated
\* terms; it lies in [0, 1] and is 0 when nothing is declared, detected or
\* described.
C23_ConfidenceRule ==
  TechStackAnalysed =>
    /\ tech_analysis.confidence
         = StatedConfidence(project, tech_analysis.detected_tech)
    /\ tech_analysis.confidence >= 0
    /\ tech_analysis.confidence <= One
    /\ (/\ project.tech_stack = <<>>
        /\ tech_analysis.detected_tech = <<>>
        /\ project.description = <<>>)
         => tech_analysis.confidence = 0

\* a record with a description of more than 100 characters and no declared
\* stack was analysed: the confidence holds the 0.2 of the description
C23_Witness ==
  /\ TechStackAnalysed
  /\ Len(project.description) > 100
  /\ project.tech_stack = <<>>
  /\ tech_analysis.confidence >= (2 * One) \div 10

\* _generate_summary returned
Summarised == nlp.summary # None

ScoredWithWeights ==
  /\ pc = "calculate_project_score"
  /\ HasWeights(weights)

\* C25: a weight map given to calculate_project_score changes only
\* overall_score and adds custom_weights to the details: the four dimension
\* scores, the algorithm id and the algorithm version are those of the same
\* call made without weights.
C25_WeightsChangeOnlyOverall ==
  ScoredWithWeights =>
    LET plain == CalculateProjectScore(bundle, algorithm, <<>>)
    IN  /\ DOMAIN result = DOMAIN plain
        /\ \A field \in DOMAIN plain \ {"overall_score", "custom_weights"} :
             result[field] = plain[field]
        /\ plain.custom_weights = <<>>
        /\ result.custom_weights = weights

\* a call with the map {quality: 1.0} returned an overall score that differs
\* from the overall score of the call without weights
C25_Witness ==
  /\ ScoredWithWeights
  /\ weights = [quality |-> 100]
  /\ result.overall_score # CalculateProjectScore(bundle, algorithm, <<>>).overall_score
  /\ result.quality_score = CalculateProjectScore(bundle, algorithm, <<>>).quality_score

\* analyze_project built its bundle, for a caller or for
\* calculate_project_score
BundleBuilt == pc \in {"analyze_project", "calculate_project_score"}

\* C26: a bundle analyze_project builds outside its error fallback has the
\* risk level "low"; the fallback bundle has "medium", so the branches for a
\* high or a medium risk are reached from the fallback bundle only.
C26_PipelineRiskIsLow ==
  BundleBuilt =>
    /\ bundle.risk_assessment.level
         = (IF "error" \in DOMAIN bundle THEN "medium" ELSE "low")
    /\ bundle.risk_assessment.level # "low" => bundle = FallbackBundle

\* a bundle was built, without the fallback, for a record that declares a
\* stack and whose features hold a maintainability below 0.3
C26_Witness ==
  /\ pc = "analyze_project"
  /\ "error" \notin DOMAIN bundle
  /\ project.tech_stack # <<>>
  /\ Get(bundle.features, "maintainability_score", One) * 10 < 3 * One
  /\ bundle.risk_assessment.level = "low"

\* the Simulated-ML algorithm scored a well-formed bundle, handed to it
\* directly or built by analyze_project
MLScored ==
  /\ algorithm = "ml_based"
  /\ \/ pc = "calculate_score" /\ faults = {}
     \/ pc = "calculate_project_score"

\* the four dimension scores, in points, as a table over the readability (in
\* thousandths), the technology count, the novelty (in One units) and the
\* risk level
StatedMLScores(readability, tech_count, novelty, level) ==
  [quality        |-> IF tech_count > 5 THEN 47
                      ELSE IF readability > 60000 THEN 60
                      ELSE IF readability < 30000 THEN 45
                      ELSE 50,
   innovation     |-> IF 2 * novelty > One THEN 65 ELSE 50,
   feasibility    |-> 50 - (IF tech_count > 5 THEN 5 ELSE 0)
                        + (IF level = "high" THEN -10
                           ELSE IF level = "low" THEN 5 ELSE 0),
   business_value |-> 50]

\* C27: with its model handle loaded, Simulated-ML returns scores that are a
\* function of the readability, the technology count, the novelty and the
\* risk level only: business value is 50, innovation is 50 or 65, and with
\* more than 5 technologies quality is 47 whatever the readability.
C27_SimulatedMLTable ==
  MLScored =>
    LET features == Get(bundle, "features", <<>>)
        tech_count == Get(features, "tech_count", 0)
        stated == StatedMLScores(
                    Get(features, "readability_score", 0), tech_count,
                    Get(features, "innovation_score_novelty", 0),
                    Get(Get(bundle, "risk_assessment", <<>>), "level", "medium"))
    IN  /\ result.quality_score = Points(stated.quality)
        /\ result.innovation_score = Points(stated.innovation)
        /\ result.feasibility_score = Points(stated.feasibility)
        /\ result.business_value_score = Points(50)
        /\ result.innovation_score \in {Points(50), Points(65)}
        /\ tech_count > 5 => result.quality_score = Points(47)

\* a bundle with 11 technologies and a readability above 60 was scored:
\* quality is 47, not 60
C27_Witness ==
  /\ MLScored
  /\ Get(Get(bundle, "features", <<>>), "tech_count", 0) = 11
  /\ Get(Get(bundle, "features", <<>>), "readability_score", 0) > 60000
  /\ result.quality_score = Points(47)

\* C28: _normalize_tech_name returns no technology for a token that is empty
\* once its whitespace is trimmed, as it does for the empty string, so such
\* an entry of tech_stack adds nothing to the detected set.
C28_BlankTokenResolvesToNothing ==
  /\ pc = "normalize_tech_name"
  /\ IsStr(token)
  /\ Strip(token) = <<>>
  => resolved = None

\* predict returned for a record with a non-empty text
Predicted == classifier.stage = "predicted"

\* C29: for a non-empty text the name predict returns is the category with
\* the highest probability in the returned category_probabilities, whatever
\* the order in which the class labels were collected at training.
C29_NameHasHighestProbability ==
  Predicted =>
    LET name == classifier.prediction.name
        probabilities == classifier.prediction.category_probabilities
    IN  /\ name \in DOMAIN probabilities
        /\ \A c \in DOMAIN probabilities : probabilities[c] <= probabilities[name]

\* the detector ran on a record and on the record after an addition
Compared == detection.stage = "compared"

\* C30: detection is monotone: an entry added to tech_stack, a string value
\* added to metadata, or words appended to the name or the description never
\* remove a technology from the detected set.
C30_DetectionIsMonotone ==
  Compared => Range(detection.before) \subseteq Range(detection.after)

\* a record whose description names javascript and whose tech_stack is
\* empty was given the entry python: javascript is kept and python added
C30_Witness ==
  /\ Compared
  /\ project.tech_stack = <<>>
  /\ project2.tech_stack = << <<"p","y","t","h","o","n">> >>
  /\ <<"j","a","v","a","s","c","r","i","p","t">> \in Range(detection.before)
  /\ <<"p","y","t","h","o","n">> \notin Range(detection.before)
  /\ {<<"j","a","v","a","s","c","r","i","p","t">>, <<"p","y","t","h","o","n">>} \subseteq Range(detection.after)
====
